---- MODULE Spec2Model ----
(***************************************************************************)
(* A model of the ink version-control engine (Who23/ink).                  *)
(*                                                                         *)
(*   Part G  - the generic adjacency-list graph of src/src/graph.rs        *)
(*   Part E  - the line diff of src/src/diff.rs (Myers trace, path, edits, *)
(*             apply and rollback)                                         *)
(*   Part I  - the repository on disk and the init / commit / go           *)
(*             operations of src/src/lib.rs, with the records, blobs,      *)
(*             graph file and cursor file they read and write              *)
(*   Part M  - the Myers engine of src/src/diff/algo.rs with the edits of  *)
(*             src/src/diff/edit.rs, their edit script and its parser      *)
(*             (src/src/diff/parser.rs)                                    *)
(*   Part C  - the functions of src/src/commit.rs on given inputs          *)
(*                                                                         *)
(* Each part has its own specification (SpecGraph, SpecDiff, SpecRepo,     *)
(* SpecMyers, SpecCommit); the variables of the other parts stay at their  *)
(* initial values.                                                         *)
(***************************************************************************)
EXTENDS Integers, Sequences, FiniteSets, TLC

VARIABLES
    \* ---- Part G: Graph<N, I> ----
    nodes,      \* Graph.nodes : HashMap<I, N>, a function id -> [pointing_to, pointed_to]
    gres,       \* the Result of the last graph call: "none", "ok" or the error text
    gops,       \* number of graph calls made so far (bounded by MaxGraphOps)
    gcall,      \* the last graph call: [op, from, to, pre], pre the graph it was made on
    \* ---- Part E: Diff (src/src/diff.rs) ----
    da,         \* the line sequence a given to Diff::from
    db,         \* the line sequence b given to Diff::from
    dphase,     \* "input", "applied" (Diff::apply ran) or "rolledback" (Diff::rollback ran)
    dres,       \* outcome of the call: [panic, out], out = the lines of the file afterwards
    \* ---- Part I: the repository ----
    wd,         \* working tree: project-relative path -> [permissions, content]
    cwd,        \* current directory of the process: "." (project root) or "sub"
    now,        \* SystemTime::now() in seconds
    dirs,       \* which of .ink, .ink/commit, .ink/data exist
    blobs,      \* .ink/data : content digest -> content of the blob
    created,    \* .ink/data : content digest -> how often File::create made the blob file
    commitDir,  \* .ink/commit : commit digest -> the CommitRepr stored under it
    graphFile,  \* .ink/graph : [exists, graph]
    cursorFile, \* .ink/cursor : [exists, content], content a sequence of digests
    pc,         \* "idle" or the step the call in progress makes next
    frame,      \* locals of the call in progress
    ret,        \* what the last call returned: [call, res, commit]
    pre,        \* the tree, graph file and cursor file as the last call found them
    ncalls,     \* number of init/commit/go calls made so far (bounded by MaxCalls)
    nuser,      \* number of things the user did so far (bounded by MaxUserSteps)
    \* ---- Part M: the Myers engine of diff/algo.rs and diff/edit.rs ----
    ma,         \* the line sequence a given to myers::from
    mb,         \* the line sequence b given to myers::from
    mchecks,    \* TRUE when the build has overflow checks (debug), FALSE when not (release)
    mphase,     \* "idle", "input", "diffed", "serialized", "parsed", "panicked",
                \* or "edits" and "joined" (before and after Edit::join)
    medits,     \* what myers::from returned: [panic, edits]
    mscript,    \* the edit script of the edits: [panic, text]
    mparsed,    \* what parsing the edit script returned: [ok, panic, err, edits]
    mjoin,      \* a call self.join(edit): [self, edit, res], res = [ok, edit]
    \* ---- Part C: the functions of commit.rs on given inputs ----
    cin,        \* the inputs: [tree, paths, time, other_tree, other_time]
    cphase,     \* "idle", "input", "built", "diffed", "written", "altered", "loaded", "graphed" or "resolved"
    cbuilt,     \* the commits Commit::new returned: [self, other]
    cstore,     \* the directory commit/ : commit digest -> the CommitRepr stored under it
    cgraph,     \* the graph file: [exists, graph]
    cout        \* what the last call returned: [call, ok, err, commit, edits, prefix, hash]

gvars == <<nodes, gres, gops, gcall>>
dvars == <<da, db, dphase, dres>>
mvars == <<ma, mb, mchecks, mphase, medits, mscript, mparsed, mjoin>>
cvars == <<cin, cphase, cbuilt, cstore, cgraph, cout>>
rvars == <<wd, cwd, now, dirs, blobs, created, commitDir, graphFile, cursorFile,
           pc, frame, ret, pre, ncalls, nuser>>

\* ------------------------------------------------------------------------
\* Bounds
\* ------------------------------------------------------------------------
MaxNodeId == 2
MaxGraphOps == 6
MaxLen == 3         \* longest line sequence given to Diff::from
MaxCalls == 4       \* init/commit/go calls in one behaviour
MaxUserSteps == 2   \* things the user does between calls (file changes, chdir, a second passing)
MaxTime == 2        \* seconds on the clock
MaxJoinLine == 1    \* largest first line of an edit given to Edit::join

NodeIds == 1..MaxNodeId

\* ------------------------------------------------------------------------
\* Helpers on Vec<I>
\* ------------------------------------------------------------------------
Contains(s, x) == \E i \in 1..Len(s) : s[i] = x

Retain(s, x) == SelectSeq(s, LAMBDA e : e # x)

SeqToSet(s) == {s[i] : i \in 1..Len(s)}

\* ========================================================================
\* Part G : src/src/graph.rs
\* ========================================================================

\* A node as the callers of add_node build it (TestNode::new, IDGraph):
\* no edge yet.
NewNode == [pointing_to |-> <<>>, pointed_to |-> <<>>]

\* Graph::new
Graph_new == <<>>

HasKey(g, id) == id \in DOMAIN g

\* Graph::add_node : returns the graph after the call and the Result.
add_node(g, id) ==
    IF HasKey(g, id)
    THEN [g |-> g, res |-> "Node ID is not unique"]
    ELSE [g |-> [k \in (DOMAIN g) \cup {id} |-> IF k = id THEN NewNode ELSE g[k]],
          res |-> "ok"]

\* retain(|elem| elem != id) on the pointing_to list of every node named in
\* `others` that is still a key, then the same on pointed_to (remove_node's
\* two loops).
RetainPointingTo(g, others, id) ==
    [k \in DOMAIN g |->
        IF k \in others
        THEN [g[k] EXCEPT !.pointing_to = Retain(@, id)]
        ELSE g[k]]

RetainPointedTo(g, others, id) ==
    [k \in DOMAIN g |->
        IF k \in others
        THEN [g[k] EXCEPT !.pointed_to = Retain(@, id)]
        ELSE g[k]]

\* A mutant of remove_node: the lists of the other nodes are left alone.
remove_node_KeepReferences(g, id) ==
    IF ~HasKey(g, id)
    THEN [g |-> g, res |-> "Invalid Node ID"]
    ELSE [g |-> [k \in (DOMAIN g) \ {id} |-> g[k]], res |-> "ok"]

\* Graph::remove_node
remove_node(g, id) ==
    IF ~HasKey(g, id)
    THEN [g |-> g, res |-> "Invalid Node ID"]
    ELSE LET pointing_to == SeqToSet(g[id].pointing_to)
             pointed_to  == SeqToSet(g[id].pointed_to)
             g1 == RetainPointingTo(g, pointed_to, id)
             g2 == RetainPointedTo(g1, pointing_to, id)
         IN  [g |-> [k \in (DOMAIN g2) \ {id} |-> g2[k]], res |-> "ok"]

\* A mutant of add_edge: the edge is recorded on the 'from' side only.
add_edge_FromSideOnly(g, from, to) ==
    IF ~HasKey(g, from) THEN [g |-> g, res |-> "Invalid Node ID for 'from' node"]
    ELSE IF ~HasKey(g, to) THEN [g |-> g, res |-> "Invalid Node ID for 'to' node"]
    ELSE IF Contains(g[from].pointing_to, to)
         THEN [g |-> g, res |-> "'from' node already contains an edge to 'to' node"]
    ELSE [g |-> [g EXCEPT ![from].pointing_to = Append(@, to)], res |-> "ok"]

\* A mutant of add_edge: the push onto from's pointing_to is made before the
\* list is searched for the edge.
add_edge_PushThenCheck(g, from, to) ==
    IF ~HasKey(g, from) THEN [g |-> g, res |-> "Invalid Node ID for 'from' node"]
    ELSE IF ~HasKey(g, to) THEN [g |-> g, res |-> "Invalid Node ID for 'to' node"]
    ELSE LET g1 == [g EXCEPT ![from].pointing_to = Append(@, to)]
         IN  IF Contains(g[from].pointing_to, to)
             THEN [g |-> g1, res |-> "'from' node already contains an edge to 'to' node"]
             ELSE [g |-> [g1 EXCEPT ![to].pointed_to = Append(@, from)], res |-> "ok"]

\* Graph::add_edge.  The push onto from's pointing_to happens before the
\* check of to's pointed_to, so the second error returns with the first
\* push already made.
add_edge(g, from, to) ==
    IF ~HasKey(g, from) THEN [g |-> g, res |-> "Invalid Node ID for 'from' node"]
    ELSE IF ~HasKey(g, to) THEN [g |-> g, res |-> "Invalid Node ID for 'to' node"]
    ELSE IF Contains(g[from].pointing_to, to)
         THEN [g |-> g, res |-> "'from' node already contains an edge to 'to' node"]
    ELSE LET g1 == [g EXCEPT ![from].pointing_to = Append(@, to)]
         IN  IF Contains(g1[to].pointed_to, from)
             THEN [g |-> g1, res |-> "'to' node already contains an edge from 'from' node"]
             ELSE [g |-> [g1 EXCEPT ![to].pointed_to = Append(@, from)], res |-> "ok"]

\* A mutant of remove_edge: removing an edge that is not there succeeds.
remove_edge_Idempotent(g, from, to) ==
    IF ~HasKey(g, from) THEN [g |-> g, res |-> "Invalid Node ID for 'from' node"]
    ELSE IF ~HasKey(g, to) THEN [g |-> g, res |-> "Invalid Node ID for 'to' node"]
    ELSE [g |-> [k \in DOMAIN g |->
                    [pointing_to |-> IF k = from THEN Retain(g[k].pointing_to, to)
                                     ELSE g[k].pointing_to,
                     pointed_to |-> IF k = to THEN Retain(g[k].pointed_to, from)
                                    ELSE g[k].pointed_to]],
          res |-> "ok"]

\* Graph::remove_edge.  As in add_edge, the first retain happens before the
\* second check.
remove_edge(g, from, to) ==
    IF ~HasKey(g, from) THEN [g |-> g, res |-> "Invalid Node ID for 'from' node"]
    ELSE IF ~HasKey(g, to) THEN [g |-> g, res |-> "Invalid Node ID for 'to' node"]
    ELSE IF ~Contains(g[from].pointing_to, to)
         THEN [g |-> g, res |-> "No edge exists between the 'from' node and the 'to' node"]
    ELSE LET g1 == [g EXCEPT ![from].pointing_to = Retain(@, to)]
         IN  IF ~Contains(g1[to].pointed_to, from)
             THEN [g |-> g1, res |-> "No edge exists between the 'to' node and the 'from' node"]
             ELSE [g |-> [g1 EXCEPT ![to].pointed_to = Retain(@, from)], res |-> "ok"]

\* ========================================================================
\* Part E : src/src/diff.rs
\* ========================================================================
\* A line is a string without a newline; a file and the content of an edit
\* are sequences of lines (the content String of an Edit holds each line
\* followed by "\n", so content.lines().count() is the length of the
\* sequence).  Vec indices are 0-based in the code; a Vec<usize> v is a
\* function on 0..len-1 here, and lines are read with a[x + 1].

Lines == {"x", "y"}

LineSeqs == UNION {[1..n -> Lines] : n \in 0..MaxLen}

\* `x as usize` for an isize x.  A negative x wraps to 2^64 + x, more than
\* the model checker's integers hold: the wrapped value is kept as the
\* negative number, and UsizeGe orders such values above every other.
AsUsize(x) == x

UsizeGe(p, q) ==
    IF (p < 0) = (q < 0) THEN p >= q ELSE p < 0

Abs(k) == IF k < 0 THEN -k ELSE k

\* the diagonal run of explore_paths: x after `while x < n && y < m && a[x] == b[y]`
RECURSIVE Slide(_, _, _, _)
Slide(a, b, x, y) ==
    IF x < Len(a) /\ y < Len(b) /\ a[x + 1] = b[y + 1]
    THEN Slide(a, b, x + 1, y + 1)
    ELSE x

\* The two nested loops of explore_paths, from round d and diagonal k on,
\* with the vector v and the trace t built so far.  Result: [panic, t].
RECURSIVE ExploreFrom(_, _, _, _, _, _)
ExploreFrom(a, b, d, k, v, t) ==
    LET n == Len(a)
        m == Len(b)
        max == n + m
    IN  IF k > 2 * d
        THEN \* end of round d: t.push(v.clone())
             IF d = max
             THEN [panic |-> FALSE, t |-> Append(t, v)]
             ELSE ExploreFrom(a, b, d + 1, 0, v, Append(t, v))
        ELSE LET index_k == (max - d) + k
                 down == (k = 0) \/ (k # 2 * d /\ v[index_k - 1] < v[index_k + 1])
                 badIndex ==
                    \/ (k = 0 /\ index_k + 1 \notin DOMAIN v)
                    \/ (k # 0 /\ k # 2 * d /\ ~({index_k - 1, index_k + 1} \subseteq DOMAIN v))
                    \/ (k # 0 /\ k = 2 * d /\ index_k - 1 \notin DOMAIN v)
             IN  IF badIndex THEN [panic |-> TRUE, t |-> t]
                 ELSE LET x0 == IF down THEN v[index_k + 1] ELSE v[index_k - 1] + 1
                      IN  IF x0 + d - k < 0 THEN [panic |-> TRUE, t |-> t]
                          ELSE LET y0 == x0 + d - k
                                   x == Slide(a, b, x0, y0)
                                   y == y0 + (x - x0)
                                   v1 == [v EXCEPT ![index_k] = x]
                               IN  IF x >= n /\ y >= m
                                   THEN [panic |-> FALSE, t |-> Append(t, v1)]
                                   ELSE ExploreFrom(a, b, d, k + 2, v1, t)

\* explore_paths.  `v[max + 1] = 0` is an index past the end of v when
\* max = 0 (v has 2 * max + 1 = 1 element).
explore_paths(a, b) ==
    LET max == Len(a) + Len(b)
        v == [i \in 0..(2 * max) |-> 0]
    IN  IF max + 1 \notin DOMAIN v
        THEN [panic |-> TRUE, t |-> <<>>]
        ELSE ExploreFrom(a, b, 0, 0, v, <<>>)

\* the points pushed by `while x > prev_x && y > prev_y`, in push order
RECURSIVE DiagonalPoints(_, _, _, _)
DiagonalPoints(x, y, prev_x, prev_y) ==
    IF x > prev_x /\ y > prev_y
    THEN <<<<AsUsize(x), AsUsize(y)>>>> \o DiagonalPoints(x - 1, y - 1, prev_x, prev_y)
    ELSE <<>>

\* number of diagonal steps that loop takes
DiagonalCount(x, y, prev_x, prev_y) ==
    IF x > prev_x /\ y > prev_y
    THEN IF x - prev_x < y - prev_y THEN x - prev_x ELSE y - prev_y
    ELSE 0

\* The backtracking loop of find_path from trace index d (1-based position
\* d + 1 of t) down to 0, at the point (x, y), with the path pushed so far.
\* prev_index_k is chosen by the sign of k, as the code does.
RECURSIVE FindFrom(_, _, _, _, _, _)
FindFrom(t, max, d, x, y, path) ==
    IF d < 0 THEN [panic |-> FALSE, path |-> path]
    ELSE
    LET v == t[d + 1]
        k == x - y
        index_k == IF k < 0 THEN max - Abs(k) ELSE max + Abs(k)
        needV == ~(k = -d) /\ k # d
    IN  IF index_k < 0 \/ (needV /\ ~({index_k - 1, index_k + 1} \subseteq DOMAIN v))
        THEN [panic |-> TRUE, path |-> path]
        ELSE
        LET prev_k == IF (k = -d) \/ (k # d /\ v[index_k - 1] < v[index_k + 1])
                      THEN k + 1 ELSE k - 1
            prev_index_k == IF k < 0 THEN max - Abs(prev_k) ELSE max + Abs(prev_k)
        IN  IF prev_index_k \notin DOMAIN v
            THEN [panic |-> TRUE, path |-> path]
            ELSE
            LET prev_x == v[prev_index_k]
                prev_y == prev_x - prev_k
                c == DiagonalCount(x, y, prev_x, prev_y)
                p1 == path \o DiagonalPoints(x, y, prev_x, prev_y)
                p2 == IF d > 0 THEN Append(p1, <<AsUsize(x - c), AsUsize(y - c)>>) ELSE p1
            IN  FindFrom(t, max, d - 1, prev_x, prev_y, p2)

Reverse(s) == [i \in 1..Len(s) |-> s[Len(s) + 1 - i]]

\* find_path : [panic, path]
find_path(t, a_len, b_len) ==
    LET r == FindFrom(t, a_len + b_len, Len(t) - 1, a_len, b_len, <<>>)
    IN  [panic |-> r.panic, path |-> Reverse(r.path)]

NewEdit(op, line_idx, line) ==
    [operation |-> op, line_start |-> line_idx, line_end |-> line_idx, content |-> <<line>>]

\* The loop of create_edits over path[i..], at the point (x, y), with the
\* edits pushed so far.  Result: [panic, edits].
RECURSIVE CreateFrom(_, _, _, _, _, _, _)
CreateFrom(path, a, b, i, x, y, diff) ==
    IF i > Len(path) THEN [panic |-> FALSE, edits |-> diff]
    ELSE
    LET prev_x == path[i][1]
        prev_y == path[i][2]
        edit_type == IF x = prev_x THEN "Insert"
                     ELSE IF y = prev_y THEN "Delete" ELSE "None"
    IN  IF edit_type = "None"
        THEN CreateFrom(path, a, b, i + 1, prev_x, prev_y, diff)
        ELSE IF (edit_type = "Insert" /\ y >= Len(b)) \/ (edit_type = "Delete" /\ x >= Len(a))
        THEN [panic |-> TRUE, edits |-> diff]      \* b[y] or a[x] out of range
        ELSE
        LET line == IF edit_type = "Insert" THEN b[y + 1] ELSE a[x + 1]
            last == diff[Len(diff)]
            diff1 ==
                IF Len(diff) > 0 /\ last.operation = edit_type /\ UsizeGe(last.line_end + 1, x)
                THEN [diff EXCEPT ![Len(diff)] =
                        [last EXCEPT !.line_end = @ + 1, !.content = Append(@, line)]]
                ELSE Append(diff, NewEdit(edit_type, x, line))
        IN  CreateFrom(path, a, b, i + 1, prev_x, prev_y, diff1)

create_edits(path, a, b) == CreateFrom(path, a, b, 1, 0, 0, <<>>)

\* Diff::from : [panic, edits]
Diff_from(a, b) ==
    LET trace == explore_paths(a, b)
    IN  IF trace.panic THEN [panic |-> TRUE, edits |-> <<>>]
        ELSE LET p == find_path(trace.t, Len(a), Len(b))
             IN  IF p.panic THEN [panic |-> TRUE, edits |-> <<>>]
                 ELSE create_edits(p.path, a, b)

\* The loop of apply_edits over the lines of the file from 0-based line
\* number ln on.  st = [ltd, idx, last, out]: lines_to_delete,
\* current_edit_index, the index of last_edit in edits, and the lines
\* written to the tmp file.  Result: [panic, st].
RECURSIVE ApplyFrom(_, _, _, _)
ApplyFrom(edits, file, ln, st) ==
    IF ln >= Len(file) THEN [panic |-> FALSE, st |-> st]
    ELSE
    LET line == file[ln + 1]
    IN  IF st.ltd > 0
        THEN ApplyFrom(edits, file, ln + 1, [st EXCEPT !.ltd = @ - 1])
        ELSE IF st.idx >= Len(edits)
        THEN [panic |-> TRUE, st |-> st]       \* edits[current_edit_index] out of range
        ELSE
        LET cur == edits[st.idx + 1]
            last_edit == edits[st.last + 1]
        IN  IF ln # cur.line_start
            THEN ApplyFrom(edits, file, ln + 1, [st EXCEPT !.out = Append(@, line)])
            ELSE IF cur.operation = "Insert"
            THEN LET next_edit == edits[st.idx + 2]
                     keepLine ==
                        IF st.idx + 1 # Len(edits)
                        THEN ~(next_edit.operation = "Delete"
                               /\ cur.line_end + 1 = next_edit.line_start)
                        ELSE TRUE
                     out1 == st.out \o cur.content
                     out2 == IF keepLine THEN Append(out1, line) ELSE out1
                 IN  ApplyFrom(edits, file, ln + 1,
                        [ltd |-> st.ltd, idx |-> st.idx + 1, last |-> st.idx, out |-> out2])
            ELSE \* Delete
                 IF cur.line_end < cur.line_start
                 THEN [panic |-> TRUE, st |-> st]  \* line_end - line_start below zero
                 ELSE
                 LET ltd0 == cur.line_end - cur.line_start
                     afterInsert == last_edit.operation = "Insert"
                                    /\ last_edit.line_end + 1 = cur.line_start
                     out1 == IF afterInsert THEN Append(st.out, line) ELSE st.out
                     ltd1 == IF afterInsert /\ ltd0 > 0 THEN ltd0 - 1 ELSE ltd0
                 IN  ApplyFrom(edits, file, ln + 1,
                        [ltd |-> ltd1, idx |-> st.idx + 1, last |-> st.idx, out |-> out1])

\* Diff::apply_edits on a file with the given lines: [panic, out], out being
\* the lines of the file after the call (the file is replaced by the rename
\* only when the end is reached).
apply_edits(edits, file) ==
    IF Len(edits) = 0 THEN [panic |-> FALSE, out |-> file]
    ELSE
    LET r == ApplyFrom(edits, file, 0, [ltd |-> 0, idx |-> 0, last |-> 0, out |-> <<>>])
    IN  IF r.panic THEN [panic |-> TRUE, out |-> file]
        ELSE IF r.st.idx = Len(edits) - 1
        THEN IF edits[r.st.idx + 1].operation = "Insert"
             THEN [panic |-> FALSE, out |-> r.st.out \o edits[r.st.idx + 1].content]
             ELSE [panic |-> TRUE, out |-> file]    \* "the last one is a delete??"
        ELSE IF r.st.idx # Len(edits)
        THEN [panic |-> TRUE, out |-> file]         \* "edits left after??"
        ELSE [panic |-> FALSE, out |-> r.st.out]

\* Diff::apply
Diff_apply(edits, file) == apply_edits(edits, file)

\* The loop of Diff::rollback over edits[i..] with the running offset:
\* [panic, edits], the rollback_edits.
RECURSIVE RollbackFrom(_, _, _, _)
RollbackFrom(edits, i, offset, acc) ==
    IF i > Len(edits) THEN [panic |-> FALSE, edits |-> acc]
    ELSE
    LET edit == edits[i]
        num_lines == Len(edit.content)
        line_start == IF offset < 0 THEN edit.line_start - Abs(offset)
                      ELSE edit.line_start + Abs(offset)
    IN  IF line_start < 0 \/ num_lines + line_start - 1 < 0
        THEN [panic |-> TRUE, edits |-> acc]
        ELSE
        LET offset1 == IF num_lines # 1
                       THEN IF edit.operation = "Insert" THEN offset + num_lines
                            ELSE offset - num_lines
                       ELSE offset
            new_edit == [operation |-> IF edit.operation = "Insert" THEN "Delete" ELSE "Insert",
                         line_start |-> line_start,
                         line_end |-> num_lines + line_start - 1,
                         content |-> edit.content]
        IN  RollbackFrom(edits, i + 1, offset1, Append(acc, new_edit))

\* Diff::rollback
Diff_rollback(edits, file) ==
    LET r == RollbackFrom(edits, 1, 0, <<>>)
    IN  IF r.panic THEN [panic |-> TRUE, out |-> file]
        ELSE apply_edits(r.edits, file)


\* ---- the calls a user of Diff can make ---------------------------------

NoResult == [panic |-> FALSE, out |-> <<>>]

\* ---- the calls a user of Graph can make --------------------------------

GraphCall(call, from, to, r) ==
    /\ gops < MaxGraphOps
    /\ nodes' = r.g
    /\ gres' = r.res
    /\ gops' = gops + 1
    /\ gcall' = [op |-> call, from |-> from, to |-> to, pre |-> nodes]
    /\ UNCHANGED <<dvars, rvars, mvars, cvars>>

AddNode == \E id \in NodeIds : GraphCall("add_node", id, id, add_node(nodes, id))

RemoveNode == \E id \in NodeIds : GraphCall("remove_node", id, id, remove_node(nodes, id))

AddEdge ==
    \E from \in NodeIds, to \in NodeIds :
        GraphCall("add_edge", from, to, add_edge(nodes, from, to))

RemoveEdge ==
    \E from \in NodeIds, to \in NodeIds :
        GraphCall("remove_edge", from, to, remove_edge(nodes, from, to))

GraphNext == AddNode \/ RemoveNode \/ AddEdge \/ RemoveEdge

\* let diff = Diff::from(&a, &b); write a to f; diff.apply(f)
Apply ==
    /\ dphase = "input"
    /\ LET d == Diff_from(da, db)
       IN  dres' = IF d.panic THEN [panic |-> TRUE, out |-> da]
                   ELSE Diff_apply(d.edits, da)
    /\ dphase' = "applied"
    /\ UNCHANGED <<da, db, gvars, rvars, mvars, cvars>>

\* let diff = Diff::from(&a, &b); write b to f; diff.rollback(f)
Rollback ==
    /\ dphase = "input"
    /\ LET d == Diff_from(da, db)
       IN  dres' = IF d.panic THEN [panic |-> TRUE, out |-> db]
                   ELSE Diff_rollback(d.edits, db)
    /\ dphase' = "rolledback"
    /\ UNCHANGED <<da, db, gvars, rvars, mvars, cvars>>

DiffNext == Apply \/ Rollback

\* ========================================================================
\* Part I : the repository (src/src/lib.rs, commit.rs, filedata.rs,
\*          cursor.rs, graph/commit_graph.rs)
\* ========================================================================
\* The working tree holds files at the project-relative paths of Paths; the
\* project directory and its sub-directory "sub" exist throughout, and the
\* process runs with one of them as its current directory.  A file has a
\* unix mode and a content; a digest is the leading byte of the SHA-256 the
\* code computes, which is distinct for all the values of the model.
\* A blob under data/ is kept as the bytes its Decoder gives back.  A call
\* runs step by step, one system call that writes per step; any step can
\* fail with an io::Error (IoError), and a write that fails is taken not to
\* have happened.

Paths == {"a", "sub/a"}

Perms == {33188, 33261}

Contents == {"", "x"}

Cwds == {".", "sub"}

\* Sha256 of the file bytes (Content::new, Content::write)
ContentDigest(c) == IF c = "" THEN 227 ELSE 45

\* Sha256(rooted path || permissions.to_be_bytes() || content.hash)
EntryDigest(path, permissions, content_hash) ==
    IF path = "a"
    THEN IF permissions = 33188
         THEN (IF content_hash = 227 THEN 155 ELSE 222)
         ELSE (IF content_hash = 227 THEN 144 ELSE 6)
    ELSE IF permissions = 33188
         THEN (IF content_hash = 227 THEN 28 ELSE 235)
         ELSE (IF content_hash = 227 THEN 99 ELSE 122)

\* FileData::new for the file at project-relative path p of the tree w
FileData_new(w, p) ==
    LET content == ContentDigest(w[p].content)
    IN  [hash |-> EntryDigest(p, w[p].permissions, content),
         path |-> p,
         permissions |-> w[p].permissions,
         content |-> content]

\* A mutant of the sort: the entries stay in the order given.
SortFiles_Unsorted(files) == files

\* Vec<FileData>::sort : a stable sort, ascending by hash (impl Ord for
\* FileData compares the hashes only)
RECURSIVE SortFiles(_)
SortFiles(files) ==
    IF files = <<>> THEN <<>>
    ELSE LET least == CHOOSE i \in 1..Len(files) :
                          /\ \A j \in 1..Len(files) : files[i].hash <= files[j].hash
                          /\ \A j \in 1..(i - 1) : files[j].hash # files[i].hash
         IN  <<files[least]>> \o
             SortFiles(SubSeq(files, 1, least - 1) \o SubSeq(files, least + 1, Len(files)))

\* the hasher of Commit::new and CommitRepr::to_commit: Sha256 over the
\* hashes of the files in order, then the time; the digest is kept as the
\* pair of what was fed to the hasher.
CommitDigest(files, time) == <<[i \in 1..Len(files) |-> files[i].hash], time>>

\* A mutant of to_commit: the digest is taken over the sorted entries, the
\* commit keeps them in the order of the record.
to_commit_KeepsStoredOrder(repr) ==
    [hash |-> CommitDigest(SortFiles(repr.files), repr.time),
     files |-> repr.files, time |-> repr.time]

\* CommitRepr::to_commit
to_commit(repr) ==
    LET files == SortFiles(repr.files)
    IN  [hash |-> CommitDigest(files, repr.time), files |-> files, time |-> repr.time]

\* Commit::new over the given list of paths of the tree w at the time
\* `timestamp`
Commit_new(w, paths, timestamp) ==
    LET files == SortFiles([i \in 1..Len(paths) |-> FileData_new(w, paths[i])])
    IN  [hash |-> CommitDigest(files, timestamp), files |-> files, time |-> timestamp]

\* utils::find_paths : the files of the tree, each once; the order is that
\* of the directory walk, here one fixed order (Commit::new sorts the entries)
find_paths(w) ==
    CHOOSE paths \in [1..Cardinality(DOMAIN w) -> DOMAIN w] :
        \A p \in DOMAIN w : \E i \in 1..Cardinality(DOMAIN w) : paths[i] = p

\* every order in which the directory walk can list the files of the tree w
WalkOrders(w) ==
    {paths \in [1..Cardinality(DOMAIN w) -> DOMAIN w] :
        \A p \in DOMAIN w : \E i \in 1..Cardinality(DOMAIN w) : paths[i] = p}

\* create_commit_from_wd: every file of the working tree (find_paths), none
\* of them under .ink
create_commit_from_wd(w, timestamp) == Commit_new(w, find_paths(w), timestamp)

\* A mutant of the record: the time is not stored.
CommitRepr_Unstamped(commit) == [files |-> commit.files, time |-> 0]

\* the record Commit::write serializes: the hash is #[serde(skip)]
CommitRepr(commit) == [files |-> commit.files, time |-> commit.time]

\* Commit::from on the directory commit/ `cdir` (a function from the name
\* of a record file to its CommitRepr): [ok, err, commit]
NoCommit == [hash |-> <<<<>>, 0>>, files |-> <<>>, time |-> 0]

\* A mutant of Commit::from: the digest of the record is not compared.
Commit_from_Unverified(cdir, hash) ==
    IF hash \notin DOMAIN cdir
    THEN [ok |-> FALSE, err |-> "Given commit hash does not exist on disk", commit |-> NoCommit]
    ELSE [ok |-> TRUE, err |-> "", commit |-> to_commit(cdir[hash])]

Commit_from(cdir, hash) ==
    IF hash \notin DOMAIN cdir
    THEN [ok |-> FALSE, err |-> "Given commit hash does not exist on disk", commit |-> NoCommit]
    ELSE LET commit == to_commit(cdir[hash])
         IN  IF hash # commit.hash
             THEN [ok |-> FALSE, err |-> "Actual hash of commit does not match given hash of commit",
                   commit |-> NoCommit]
             ELSE [ok |-> TRUE, err |-> "", commit |-> commit]

\* A mutant of Commit::diff: Modify carries the two entries the wrong way
\* round, and a path only in self is inserted.
Commit_diff_Reversed(self, other) ==
    {[kind |-> "Insert", original |-> f, modified |-> f] :
        f \in {x \in SeqToSet(self.files) :
                  \A y \in SeqToSet(other.files) : y.path # x.path}}
    \cup
    {[kind |-> "Delete", original |-> f, modified |-> f] :
        f \in {x \in SeqToSet(other.files) :
                  \A y \in SeqToSet(self.files) : y.path # x.path}}
    \cup
    {[kind |-> "Modify", original |-> xy[2], modified |-> xy[1]] :
        xy \in {z \in SeqToSet(self.files) \X SeqToSet(other.files) :
                   z[1].path = z[2].path /\ z[1].hash # z[2].hash}}

\* A mutant of Commit::diff: a path present in both commits is never an edit.
Commit_diff_PathsOnly(self, other) ==
    {[kind |-> "Insert", original |-> f, modified |-> f] :
        f \in {x \in SeqToSet(other.files) :
                  \A y \in SeqToSet(self.files) : y.path # x.path}}
    \cup
    {[kind |-> "Delete", original |-> f, modified |-> f] :
        f \in {x \in SeqToSet(self.files) :
                  \A y \in SeqToSet(other.files) : y.path # x.path}}

\* Commit::diff : the edits of CommitDiff, as a set (the order is that of
\* HashMap iteration)
FileAt(commit, path) ==
    CHOOSE f \in SeqToSet(commit.files) : f.path = path

CommitPaths(commit) == {commit.files[i].path : i \in 1..Len(commit.files)}

Commit_diff(self, other) ==
    LET self_paths == CommitPaths(self)
        other_paths == CommitPaths(other)
    IN  {[kind |-> "Insert", original |-> FileAt(other, p), modified |-> FileAt(other, p)] :
            p \in other_paths \ self_paths}
        \cup
        {[kind |-> "Modify", original |-> FileAt(self, p), modified |-> FileAt(other, p)] :
            p \in {q \in other_paths \cap self_paths : FileAt(other, q).hash # FileAt(self, q).hash}}
        \cup
        {[kind |-> "Delete", original |-> FileAt(self, p), modified |-> FileAt(self, p)] :
            p \in self_paths \ other_paths}

\* cursor::get on the cursor file and commit/ : [ok, err, commit].  The
\* file holds a sequence of digests, 32 bytes each.
HashLen == 32

CursorBytes(cur) == HashLen * Len(cur.content)

cursor_get(cur, cdir) ==
    IF ~cur.exists
    THEN [ok |-> FALSE, err |-> "io", commit |-> NoCommit]
    ELSE IF CursorBytes(cur) # HashLen
    THEN [ok |-> FALSE, err |-> "Cursor hash is wrong length", commit |-> NoCommit]
    ELSE Commit_from(cdir, cur.content[1])

\* ---- IDGraph (graph/id_graph.rs) --------------------------------------
\* A map from digest to {parents, children}.

IDNode == [parents |-> <<>>, children |-> <<>>]

IDGraph_new == <<>>

IDGraph_add_node(g, id) ==
    IF id \in DOMAIN g
    THEN [g |-> g, res |-> "Node ID is not unique"]
    ELSE [g |-> [k \in (DOMAIN g) \cup {id} |-> IF k = id THEN IDNode ELSE g[k]],
          res |-> "ok"]

IDGraph_add_edge(g, from, to) ==
    IF from \notin DOMAIN g THEN [g |-> g, res |-> "Invalid Node ID for 'from' node"]
    ELSE IF to \notin DOMAIN g THEN [g |-> g, res |-> "Invalid Node ID for 'to' node"]
    ELSE IF Contains(g[from].children, to)
    THEN [g |-> g, res |-> "'from' node already contains an edge to 'to' node"]
    ELSE IF Contains(g[to].parents, from)
    THEN [g |-> g, res |-> "'to' node already contains an edge from 'from' node"]
    ELSE [g |-> [k \in DOMAIN g |->
                    [parents |-> IF k = to THEN Append(g[k].parents, from) ELSE g[k].parents,
                     children |-> IF k = from THEN Append(g[k].children, to) ELSE g[k].children]],
          res |-> "ok"]

\* A mutant of add_commit: the edge is added from the new commit to the old.
add_commit_EdgeReversed(g, from, to) ==
    LET r1 == IDGraph_add_node(g, to.hash)
    IN  IF r1.res # "ok" THEN r1
        ELSE IDGraph_add_edge(r1.g, to.hash, from.hash)

\* CommitGraph::add_commit : add_node(to.hash())?; add_edge(from.hash(), to.hash())?
add_commit(g, from, to) ==
    LET r1 == IDGraph_add_node(g, to.hash)
    IN  IF r1.res # "ok" THEN r1
        ELSE IDGraph_add_edge(r1.g, from.hash, to.hash)

\* the path a project-relative path names when the process resolves it
\* against its current directory (File::create, fs::set_permissions and
\* fs::remove_file on f.path() in go and write_to); "sub/sub/a" names a file
\* in a directory that does not exist.
Resolve(dir, path) ==
    IF dir = "." THEN path
    ELSE IF path = "a" THEN "sub/a" ELSE "sub/sub/a"


\* the error go returns on a dirty tree (lib.rs 93-95)
DirtyError == "The working directory is dirty, please commit all changes before proceeding"

\* ---- the state of a call in progress -----------------------------------

NoOp == [call |-> "none", commit |-> NoCommit, i |-> 0, graph |-> <<>>,
         target |-> NoCommit, pending |-> {}]

NoRet == [call |-> "none", res |-> "none", commit |-> NoCommit]

NoFileYet == [exists |-> FALSE, content |-> <<>>]

NoGraphYet == [exists |-> FALSE, graph |-> <<>>]

NoPre == [wd |-> <<>>, graphFile |-> NoGraphYet, cursorFile |-> NoFileYet]

Snapshot == [wd |-> wd, graphFile |-> graphFile, cursorFile |-> cursorFile]

Put(f, k, v) == [x \in (DOMAIN f) \cup {k} |-> IF x = k THEN v ELSE f[x]]

Drop(f, k) == [x \in (DOMAIN f) \ {k} |-> f[x]]

disk == <<dirs, blobs, created, commitDir, graphFile, cursorFile>>
tree == <<wd, cwd>>

\* a call returns: Ok or Err to the caller
Return(call, res, commit) ==
    /\ pc' = "idle"
    /\ frame' = NoOp
    /\ ret' = [call |-> call, res |-> res, commit |-> commit]

\* ---- what the user does between calls ----------------------------------

Forget ==
    /\ ret' = NoRet
    /\ pre' = NoPre

UserWrite ==
    /\ pc = "idle"
    /\ nuser < MaxUserSteps
    /\ \E p \in Paths, m \in Perms, c \in Contents :
          /\ (p \in DOMAIN wd => wd[p] # [permissions |-> m, content |-> c])
          /\ wd' = Put(wd, p, [permissions |-> m, content |-> c])
    /\ nuser' = nuser + 1
    /\ Forget
    /\ UNCHANGED <<cwd, now, disk, pc, frame, ncalls, gvars, dvars, mvars, cvars>>

UserRemove ==
    /\ pc = "idle"
    /\ nuser < MaxUserSteps
    /\ \E p \in DOMAIN wd : wd' = Drop(wd, p)
    /\ nuser' = nuser + 1
    /\ Forget
    /\ UNCHANGED <<cwd, now, disk, pc, frame, ncalls, gvars, dvars, mvars, cvars>>

Chdir ==
    /\ pc = "idle"
    /\ nuser < MaxUserSteps
    /\ \E d \in Cwds \ {cwd} : cwd' = d
    /\ nuser' = nuser + 1
    /\ Forget
    /\ UNCHANGED <<wd, now, disk, pc, frame, ncalls, gvars, dvars, mvars, cvars>>

\* a second passes (SystemTime::now)
Tick ==
    /\ pc = "idle"
    /\ now < MaxTime
    /\ nuser < MaxUserSteps
    /\ now' = now + 1
    /\ nuser' = nuser + 1
    /\ Forget
    /\ UNCHANGED <<tree, disk, pc, frame, ncalls, gvars, dvars, mvars, cvars>>

\* ---- init (lib.rs 38-53) -----------------------------------------------

\* fs::create_dir(&ink_dir)?
InitCall ==
    /\ pc = "idle"
    /\ ncalls < MaxCalls
    /\ ncalls' = ncalls + 1
    /\ pre' = Snapshot
    /\ IF ".ink" \in dirs
       THEN Return("init", "io", NoCommit) /\ UNCHANGED dirs
       ELSE /\ dirs' = dirs \cup {".ink"}
            /\ pc' = "init_commit_dir"
            /\ frame' = [NoOp EXCEPT !.call = "init"]
            /\ ret' = NoRet
    /\ UNCHANGED <<tree, now, blobs, created, commitDir, graphFile, cursorFile, nuser, gvars, dvars, mvars, cvars>>

\* fs::create_dir(&ink_dir.join(COMMIT_EXT))?
InitCommitDir ==
    /\ pc = "init_commit_dir"
    /\ dirs' = dirs \cup {"commit"}
    /\ pc' = "init_data_dir"
    /\ UNCHANGED <<tree, now, blobs, created, commitDir, graphFile, cursorFile, frame, ret, pre,
                   ncalls, nuser, gvars, dvars, mvars, cvars>>

\* fs::create_dir(&ink_dir.join(DATA_EXT))?
InitDataDir ==
    /\ pc = "init_data_dir"
    /\ dirs' = dirs \cup {"data"}
    /\ pc' = "init_write"
    /\ UNCHANGED <<tree, now, blobs, created, commitDir, graphFile, cursorFile, frame, ret, pre,
                   ncalls, nuser, gvars, dvars, mvars, cvars>>

\* let empty_commit = Commit::new(vec![], SystemTime::now(), &ink_dir)?;
\* empty_commit.write(&ink_dir)?  (no file, so no blob: the record alone)
InitWrite ==
    /\ pc = "init_write"
    /\ LET empty_commit == Commit_new(wd, <<>>, now)
       IN  /\ commitDir' = Put(commitDir, empty_commit.hash, CommitRepr(empty_commit))
           /\ frame' = [frame EXCEPT !.commit = empty_commit]
    /\ pc' = "init_cursor_init"
    /\ UNCHANGED <<tree, now, dirs, blobs, created, graphFile, cursorFile, ret, pre,
                   ncalls, nuser, gvars, dvars, mvars, cvars>>

\* cursor::init : File::create
InitCursorInit ==
    /\ pc = "init_cursor_init"
    /\ cursorFile' = [exists |-> TRUE, content |-> <<>>]
    /\ pc' = "init_cursor_set"
    /\ UNCHANGED <<tree, now, dirs, blobs, created, commitDir, graphFile, frame, ret, pre,
                   ncalls, nuser, gvars, dvars, mvars, cvars>>

\* A mutant of init: the cursor is left as cursor::init created it.
InitCursorSet_NoSet ==
    /\ pc = "init_cursor_set"
    /\ pc' = "init_graph"
    /\ UNCHANGED <<tree, now, disk, frame, ret, pre, ncalls, nuser, gvars, dvars, mvars, cvars>>

\* cursor::set(&ink_dir, &empty_commit)
InitCursorSet ==
    /\ pc = "init_cursor_set"
    /\ cursorFile' = [exists |-> TRUE, content |-> <<frame.commit.hash>>]
    /\ pc' = "init_graph"
    /\ UNCHANGED <<tree, now, dirs, blobs, created, commitDir, graphFile, frame, ret, pre,
                   ncalls, nuser, gvars, dvars, mvars, cvars>>

\* CommitGraph::init : a new graph with the empty commit's node, written
InitGraphFile ==
    /\ pc = "init_graph"
    /\ graphFile' = [exists |-> TRUE, graph |-> IDGraph_add_node(IDGraph_new, frame.commit.hash).g]
    /\ Return("init", "ok", frame.commit)
    /\ UNCHANGED <<tree, now, dirs, blobs, created, commitDir, cursorFile, pre,
                   ncalls, nuser, gvars, dvars, mvars, cvars>>

\* ---- commit (lib.rs 71-85) ---------------------------------------------

\* root_dir()?.ok_or("Ink Uninitialized")?; create_commit_from_wd(&root_dir)?
CommitCall ==
    /\ pc = "idle"
    /\ ncalls < MaxCalls
    /\ ncalls' = ncalls + 1
    /\ pre' = Snapshot
    /\ IF ".ink" \notin dirs
       THEN Return("commit", "Ink Uninitialized", NoCommit)
       ELSE /\ pc' = "commit_write"
            /\ frame' = [NoOp EXCEPT !.call = "commit",
                                  !.commit = create_commit_from_wd(wd, now),
                                  !.i = 1]
            /\ ret' = NoRet
    /\ UNCHANGED <<tree, now, disk, nuser, gvars, dvars, mvars, cvars>>

\* A mutant of Content::write: the blob file is created whether it exists or
\* not.
CommitWriteBlob_AlwaysCreate ==
    /\ pc = "commit_write"
    /\ frame.i <= Len(frame.commit.files)
    /\ LET file == frame.commit.files[frame.i]
           hash == ContentDigest(wd[file.path].content)
       IN  IF hash # file.content
           THEN Return("commit", "File has changed between reading and writing", NoCommit)
                /\ UNCHANGED <<blobs, created>>
           ELSE IF "data" \notin dirs
           THEN Return("commit", "io", NoCommit) /\ UNCHANGED <<blobs, created>>
           ELSE /\ blobs' = Put(blobs, hash, wd[file.path].content)
                /\ created' = Put(created, hash,
                                   IF hash \in DOMAIN created THEN created[hash] + 1 ELSE 1)
                /\ frame' = [frame EXCEPT !.i = @ + 1]
                /\ UNCHANGED <<pc, ret>>
    /\ UNCHANGED <<tree, now, dirs, commitDir, graphFile, cursorFile, pre,
                   ncalls, nuser, gvars, dvars, mvars, cvars>>

\* A mutant of the loop of Commit::write: no blob is written.
CommitWriteBlob_NoBlob ==
    /\ pc = "commit_write"
    /\ frame.i <= Len(frame.commit.files)
    /\ frame' = [frame EXCEPT !.i = @ + 1]
    /\ UNCHANGED <<tree, now, disk, pc, ret, pre, ncalls, nuser, gvars, dvars, mvars, cvars>>

\* Commit::write, the loop: file.write(ink_root)? for the next file.
\* Content::write reads the file again, compares the hash and creates
\* data/<hash> unless it exists.
CommitWriteBlob ==
    /\ pc = "commit_write"
    /\ frame.i <= Len(frame.commit.files)
    /\ LET file == frame.commit.files[frame.i]
           hash == ContentDigest(wd[file.path].content)
       IN  IF hash # file.content
           THEN Return("commit", "File has changed between reading and writing", NoCommit)
                /\ UNCHANGED <<blobs, created>>
           ELSE IF hash \in DOMAIN blobs
           THEN /\ frame' = [frame EXCEPT !.i = @ + 1]
                /\ UNCHANGED <<blobs, created, pc, ret>>
           ELSE IF "data" \notin dirs
           THEN Return("commit", "io", NoCommit) /\ UNCHANGED <<blobs, created>>
           ELSE /\ blobs' = Put(blobs, hash, wd[file.path].content)
                /\ created' = Put(created, hash, 1)
                /\ frame' = [frame EXCEPT !.i = @ + 1]
                /\ UNCHANGED <<pc, ret>>
    /\ UNCHANGED <<tree, now, dirs, commitDir, graphFile, cursorFile, pre,
                   ncalls, nuser, gvars, dvars, mvars, cvars>>

\* A mutant of the end of Commit::write: the record is not written.
CommitWriteRecord_NoRecord ==
    /\ pc = "commit_write"
    /\ frame.i > Len(frame.commit.files)
    /\ pc' = "commit_graph"
    /\ UNCHANGED <<tree, now, disk, frame, ret, pre, ncalls, nuser, gvars, dvars, mvars, cvars>>

\* Commit::write, after the loop: fs::write(commit/<hex(hash)>, serialize(self))
CommitWriteRecord ==
    /\ pc = "commit_write"
    /\ frame.i > Len(frame.commit.files)
    /\ IF "commit" \notin dirs
       THEN Return("commit", "io", NoCommit) /\ UNCHANGED commitDir
       ELSE /\ commitDir' = Put(commitDir, frame.commit.hash, CommitRepr(frame.commit))
            /\ pc' = "commit_graph"
            /\ UNCHANGED <<frame, ret>>
    /\ UNCHANGED <<tree, now, dirs, blobs, created, graphFile, cursorFile, pre,
                   ncalls, nuser, gvars, dvars, mvars, cvars>>

\* let mut graph = CommitGraph::get(&root_dir)?;
\* let current_commit = cursor::get(&root_dir)?;
\* graph.add_commit(&current_commit, &commit)?;
CommitAddToGraph ==
    /\ pc = "commit_graph"
    /\ LET current_commit == cursor_get(cursorFile, commitDir)
           added == add_commit(graphFile.graph, current_commit.commit, frame.commit)
       IN  IF ~graphFile.exists THEN Return("commit", "io", NoCommit)
           ELSE IF ~current_commit.ok THEN Return("commit", current_commit.err, NoCommit)
           ELSE IF added.res # "ok" THEN Return("commit", added.res, NoCommit)
           ELSE /\ frame' = [frame EXCEPT !.graph = added.g]
                /\ pc' = "commit_cursor"
                /\ UNCHANGED ret
    /\ UNCHANGED <<tree, now, disk, pre, ncalls, nuser, gvars, dvars, mvars, cvars>>

\* cursor::set(&root_dir, &commit)?
CommitCursorSet ==
    /\ pc = "commit_cursor"
    /\ cursorFile' = [exists |-> TRUE, content |-> <<frame.commit.hash>>]
    /\ pc' = "commit_graph_write"
    /\ UNCHANGED <<tree, now, dirs, blobs, created, commitDir, graphFile, frame, ret, pre,
                   ncalls, nuser, gvars, dvars, mvars, cvars>>

\* graph.write()?; Ok(commit)
CommitGraphWrite ==
    /\ pc = "commit_graph_write"
    /\ graphFile' = [exists |-> TRUE, graph |-> frame.graph]
    /\ Return("commit", "ok", frame.commit)
    /\ UNCHANGED <<tree, now, dirs, blobs, created, commitDir, cursorFile, pre,
                   ncalls, nuser, gvars, dvars, mvars, cvars>>

\* ---- go (lib.rs 87-114) ------------------------------------------------

\* FileData::write_to(ink_root, filepath) with filepath = f.path(), which the
\* process resolves against its current directory `dir`: [wd, res].
\* File::create (its result dropped), fs::set_permissions?, File::create?,
\* get_reader?, io::copy?
write_to(w, f, dir, data) ==
    LET filepath == Resolve(dir, f.path)
    IN  IF filepath \notin Paths
        THEN [wd |-> w, res |-> "io"]
        ELSE IF f.content \notin DOMAIN data
        THEN [wd |-> Put(w, filepath, [permissions |-> f.permissions, content |-> ""]),
              res |-> "io"]
        ELSE [wd |-> Put(w, filepath, [permissions |-> f.permissions,
                                       content |-> data[f.content]]),
              res |-> "ok"]

\* fs::remove_file(f.path()), resolved against the current directory
remove_file(w, f, dir) ==
    LET filepath == Resolve(dir, f.path)
    IN  IF filepath \in DOMAIN w
        THEN [wd |-> Drop(w, filepath), res |-> "ok"]
        ELSE [wd |-> w, res |-> "io"]

\* one iteration of `for edit in diff.edits` : the match of lines 102-109
apply_edit(w, edit, dir, data) ==
    IF edit.kind = "Insert" THEN write_to(w, edit.modified, dir, data)
    ELSE IF edit.kind = "Delete" THEN remove_file(w, edit.original, dir)
    ELSE LET removed == remove_file(w, edit.original, dir)
         IN  IF removed.res # "ok" THEN removed
             ELSE write_to(removed.wd, edit.modified, dir, data)

\* the edits that can come next in diff.edits: Commit::diff pushes the
\* Insert and Modify edits first (in HashMap order), then the Delete edits
NextEdits(pending) ==
    LET first == {e \in pending : e.kind # "Delete"}
    IN  IF first # {} THEN first ELSE pending

\* the commits a caller can hand to go: those Commit::from loads from commit/
Loadable == {Commit_from(commitDir, h).commit :
                h \in {k \in DOMAIN commitDir : Commit_from(commitDir, k).ok}}

\* A mutant of go: the cursor is set to the target before the edits are
\* applied.
GoCall_CursorFirst ==
    /\ pc = "idle"
    /\ ncalls < MaxCalls
    /\ ncalls' = ncalls + 1
    /\ pre' = Snapshot
    /\ \E to \in Loadable :
          LET from == cursor_get(cursorFile, commitDir)
          IN  IF ".ink" \notin dirs
              THEN Return("go", "Ink Uninitialized", to) /\ UNCHANGED cursorFile
              ELSE IF ~from.ok THEN Return("go", from.err, to) /\ UNCHANGED cursorFile
              ELSE IF Commit_diff(create_commit_from_wd(wd, now), from.commit) # {}
              THEN Return("go", DirtyError, to) /\ UNCHANGED cursorFile
              ELSE /\ pc' = "go_apply"
                   /\ frame' = [NoOp EXCEPT !.call = "go", !.target = to,
                                         !.pending = Commit_diff(from.commit, to)]
                   /\ ret' = NoRet
                   /\ cursorFile' = [exists |-> TRUE, content |-> <<to.hash>>]
    /\ UNCHANGED <<tree, now, dirs, blobs, created, commitDir, graphFile, nuser,
                   gvars, dvars, mvars, cvars>>

\* root_dir, cursor::get, the dirty check and from.diff(&to)
GoCall ==
    /\ pc = "idle"
    /\ ncalls < MaxCalls
    /\ ncalls' = ncalls + 1
    /\ pre' = Snapshot
    /\ \E to \in Loadable :
          LET from == cursor_get(cursorFile, commitDir)
          IN  IF ".ink" \notin dirs THEN Return("go", "Ink Uninitialized", to)
              ELSE IF ~from.ok THEN Return("go", from.err, to)
              ELSE IF Commit_diff(create_commit_from_wd(wd, now), from.commit) # {}
              THEN Return("go", DirtyError, to)
              ELSE /\ pc' = "go_apply"
                   /\ frame' = [NoOp EXCEPT !.call = "go", !.target = to,
                                         !.pending = Commit_diff(from.commit, to)]
                   /\ ret' = NoRet
    /\ UNCHANGED <<tree, now, disk, nuser, gvars, dvars, mvars, cvars>>

\* the body of the loop for the next edit
GoApplyEdit ==
    /\ pc = "go_apply"
    /\ \E edit \in NextEdits(frame.pending) :
          LET r == apply_edit(wd, edit, cwd, blobs)
          IN  /\ wd' = r.wd
              /\ IF r.res = "ok"
                 THEN /\ frame' = [frame EXCEPT !.pending = @ \ {edit}]
                      /\ UNCHANGED <<pc, ret>>
                 ELSE Return("go", r.res, frame.target)
    /\ UNCHANGED <<cwd, now, disk, pre, ncalls, nuser, gvars, dvars, mvars, cvars>>

\* cursor::set(&root_dir, &to)
GoCursorSet ==
    /\ pc = "go_apply"
    /\ frame.pending = {}
    /\ cursorFile' = [exists |-> TRUE, content |-> <<frame.target.hash>>]
    /\ Return("go", "ok", frame.target)
    /\ UNCHANGED <<tree, now, dirs, blobs, created, commitDir, graphFile, pre,
                   ncalls, nuser, gvars, dvars, mvars, cvars>>

\* ---- a failing system call ---------------------------------------------
\* The step a call is about to make fails with an io::Error, which `?`
\* returns to the caller; a failed write is taken not to have happened.
IoError ==
    /\ pc # "idle"
    /\ Return(frame.call, "io", IF frame.call = "go" THEN frame.target ELSE NoCommit)
    /\ UNCHANGED <<tree, now, disk, pre, ncalls, nuser, gvars, dvars, mvars, cvars>>

\* ========================================================================
\* Part M : the Myers engine of src/src/diff/algo.rs with the edits of
\*          src/src/diff/edit.rs and the parser of src/src/diff/parser.rs
\* ========================================================================
\* explore_paths of algo.rs is that of diff.rs line for line.  A text is a
\* sequence of characters, each a string of length one; a line of the model
\* has one character.  A usize that wrapped below zero is kept as the
\* negative number it is congruent to modulo 2^64 (-1 is usize::MAX).

\* the backtracking loop of myers::find_path; prev_index_k is chosen by the
\* sign of prev_k
RECURSIVE myers_FindFrom(_, _, _, _, _, _)
myers_FindFrom(t, max, d, x, y, path) ==
    IF d < 0 THEN [panic |-> FALSE, path |-> path]
    ELSE
    LET v == t[d + 1]
        k == x - y
        index_k == IF k < 0 THEN max - Abs(k) ELSE max + Abs(k)
        needV == ~(k = -d) /\ k # d
    IN  IF index_k < 0 \/ (needV /\ ~({index_k - 1, index_k + 1} \subseteq DOMAIN v))
        THEN [panic |-> TRUE, path |-> path]
        ELSE
        LET prev_k == IF (k = -d) \/ (k # d /\ v[index_k - 1] < v[index_k + 1])
                      THEN k + 1 ELSE k - 1
            prev_index_k == IF prev_k < 0 THEN max - Abs(prev_k) ELSE max + Abs(prev_k)
        IN  IF prev_index_k \notin DOMAIN v
            THEN [panic |-> TRUE, path |-> path]
            ELSE
            LET prev_x == v[prev_index_k]
                prev_y == prev_x - prev_k
                c == DiagonalCount(x, y, prev_x, prev_y)
                p1 == path \o DiagonalPoints(x, y, prev_x, prev_y)
                p2 == IF d > 0 THEN Append(p1, <<AsUsize(x - c), AsUsize(y - c)>>) ELSE p1
            IN  myers_FindFrom(t, max, d - 1, prev_x, prev_y, p2)

\* myers::find_path : [panic, path]
myers_find_path(t, a_len, b_len) ==
    LET r == myers_FindFrom(t, a_len + b_len, Len(t) - 1, a_len, b_len, <<>>)
    IN  [panic |-> r.panic, path |-> Reverse(r.path)]

\* Edit::new
Edit_new(op, x, y, original_content, modified_content) ==
    [op |-> op,
     original |-> [line |-> x,
                   content |-> IF op = "Insert" THEN <<>> ELSE original_content],
     modified |-> [line |-> y,
                   content |-> IF op = "Delete" THEN <<>> ELSE modified_content]]

\* the edits Edit::new builds at the first lines of two files, with at most
\* one line of content a side
EditInputs ==
    {Edit_new(op, x, y, oc, mc) :
        op \in {"Insert", "Delete", "Replace"}, x \in 0..MaxJoinLine, y \in 0..MaxJoinLine,
        oc \in {<<>>, <<"x">>}, mc \in {<<>>, <<"y">>}}

\* HalfEdit::joinable
HalfEdit_joinable(self, edit) ==
    \/ self.line + Len(self.content) = edit.line
    \/ edit.line + Len(edit.content) = self.line

\* Edit::joinable
Edit_joinable(self, edit) ==
    /\ HalfEdit_joinable(self.original, edit.original)
    /\ HalfEdit_joinable(self.modified, edit.modified)

\* Edit::join : [ok, edit]
Edit_join(self, edit) ==
    IF ~Edit_joinable(self, edit) THEN [ok |-> FALSE, edit |-> self]
    ELSE LET Min(p, q) == IF p < q THEN p ELSE q
             original == [line |-> Min(self.original.line, edit.original.line),
                          content |-> self.original.content \o edit.original.content]
             modified == [line |-> Min(self.modified.line, edit.modified.line),
                          content |-> self.modified.content \o edit.modified.content]
         IN  [ok |-> TRUE,
              edit |-> [op |-> IF original.content # <<>> /\ modified.content # <<>>
                               THEN "Replace" ELSE self.op,
                        original |-> original,
                        modified |-> modified]]

\* the loop of create_edits (algo.rs) from position i of the path, at the
\* point (x, y), with the chunk in progress (a sequence of zero or one edit)
\* and the edits pushed so far: [panic, edits].  chunk.join(edit).unwrap()
\* panics when the edits are not joinable.
RECURSIVE myers_CreateFrom(_, _, _, _, _, _, _, _)
myers_CreateFrom(path, a, b, i, x, y, chunk, diff) ==
    IF i > Len(path)
    THEN [panic |-> FALSE, edits |-> diff \o chunk]
    ELSE LET prev_x == path[i][1]
             prev_y == path[i][2]
             edit_type == IF x = prev_x THEN "Insert"
                          ELSE IF y = prev_y THEN "Delete" ELSE "None"
         IN  IF edit_type = "None"
             THEN myers_CreateFrom(path, a, b, i + 1, prev_x, prev_y, <<>>, diff \o chunk)
             ELSE LET original_content == IF x # Len(a) THEN <<a[x + 1]>> ELSE <<>>
                      modified_content == IF y # Len(b) THEN <<b[y + 1]>> ELSE <<>>
                      edit == Edit_new(edit_type, x, y, original_content, modified_content)
                  IN  IF chunk = <<>>
                      THEN myers_CreateFrom(path, a, b, i + 1, prev_x, prev_y, <<edit>>, diff)
                      ELSE LET joined == Edit_join(chunk[1], edit)
                           IN  IF ~joined.ok THEN [panic |-> TRUE, edits |-> diff]
                               ELSE myers_CreateFrom(path, a, b, i + 1, prev_x, prev_y,
                                                     <<joined.edit>>, diff)

\* no join made yet
NoJoin ==
    [self |-> Edit_new("Insert", 0, 0, <<>>, <<>>),
     edit |-> Edit_new("Insert", 0, 0, <<>>, <<>>),
     res |-> [ok |-> FALSE, edit |-> Edit_new("Insert", 0, 0, <<>>, <<>>)]]

\* create_edits of algo.rs
myers_create_edits(path, a, b) == myers_CreateFrom(path, a, b, 1, 0, 0, <<>>, <<>>)

\* myers::from : [panic, edits]
myers_from(a, b) ==
    LET trace == explore_paths(a, b)
    IN  IF trace.panic THEN [panic |-> TRUE, edits |-> <<>>]
        ELSE LET path == myers_find_path(trace.t, Len(a), Len(b))
             IN  IF path.panic THEN [panic |-> TRUE, edits |-> <<>>]
                 ELSE myers_create_edits(path.path, a, b)

\* ---- texts --------------------------------------------------------------

DigitChars == <<"0", "1", "2", "3", "4", "5", "6", "7", "8", "9">>

IsDigit(c) == \E i \in 1..Len(DigitChars) : DigitChars[i] = c

DigitValue(c) == (CHOOSE i \in 1..Len(DigitChars) : DigitChars[i] = c) - 1

\* the decimal digits of a number n >= 0
RECURSIVE DecimalOf(_)
DecimalOf(n) ==
    IF n < 10 THEN <<DigitChars[n + 1]>>
    ELSE Append(DecimalOf(n \div 10), DigitChars[(n % 10) + 1])

\* the first 18 of the 20 digits of 2^64 = 18446744073709551616
TopDigits == <<"1", "8", "4", "4", "6", "7", "4", "4", "0", "7", "3", "7", "0", "9", "5", "5", "1", "6">>

\* the last two digits of 2^64
TopRest == 16

\* Display for usize: the digits of n, of 2^64 + n for a wrapped n
FormatUsize(n) == IF n >= 0 THEN DecimalOf(n) ELSE TopDigits \o DecimalOf(TopRest + n)

\* the value of a sequence of digits
RECURSIVE ValueOf(_)
ValueOf(ds) ==
    IF ds = <<>> THEN 0
    ELSE 10 * ValueOf(SubSeq(ds, 1, Len(ds) - 1)) + DigitValue(ds[Len(ds)])

\* the longest digit sequence whose value is computed as a number
MaxSmallDigits == 9

\* str::parse::<usize> : [ok, val].  The empty string is an error; the 20
\* digit numbers up to usize::MAX that begin with TopDigits are the wrapped
\* values; longer ones do not fit.
ParseUsize(ds) ==
    IF ds = <<>> THEN [ok |-> FALSE, val |-> 0]
    ELSE IF Len(ds) <= MaxSmallDigits THEN [ok |-> TRUE, val |-> ValueOf(ds)]
    ELSE IF /\ Len(ds) = Len(TopDigits) + 2
            /\ SubSeq(ds, 1, Len(TopDigits)) = TopDigits
            /\ ValueOf(SubSeq(ds, Len(TopDigits) + 1, Len(ds))) < TopRest
         THEN [ok |-> TRUE, val |-> ValueOf(SubSeq(ds, Len(TopDigits) + 1, Len(ds))) - TopRest]
    ELSE [ok |-> FALSE, val |-> 0]

StartsWith(s, prefix) ==
    Len(s) >= Len(prefix) /\ SubSeq(s, 1, Len(prefix)) = prefix

\* &s[n..]
Skip(s, n) == SubSeq(s, n + 1, Len(s))

\* the characters of a line of the model, and the line with given characters
LineChars(line) == <<line>>

LineOf(cs) == IF Len(cs) = 1 THEN cs[1] ELSE cs

\* ---- parser.rs ----------------------------------------------------------

\* read_usize : [ok, rest, val].  boundary stays 0 when no character of the
\* input is a non-digit.
read_usize(input) ==
    LET nondigits == {i \in 1..Len(input) : ~IsDigit(input[i])}
        boundary == IF nondigits = {} THEN 0
                    ELSE (CHOOSE i \in nondigits : \A j \in nondigits : i <= j) - 1
        number == ParseUsize(SubSeq(input, 1, boundary))
    IN  [ok |-> number.ok, rest |-> Skip(input, boundary), val |-> number.val]

\* the loop of read_lines from the character at 0-based index `index`
RECURSIVE ReadLinesFrom(_, _, _, _, _, _)
ReadLinesFrom(input, num_lines, index, counted_newlines, lines, prev_newline_index) ==
    IF index >= Len(input)
    THEN [lines |-> lines, prev_newline_index |-> prev_newline_index]
    ELSE IF input[index + 1] = "\n"
    THEN LET lines1 == Append(lines, SubSeq(input, prev_newline_index + 1, index))
         IN  IF counted_newlines + 1 = num_lines
             THEN [lines |-> lines1, prev_newline_index |-> index + 1]
             ELSE ReadLinesFrom(input, num_lines, index + 1, counted_newlines + 1,
                                lines1, index + 1)
    ELSE ReadLinesFrom(input, num_lines, index + 1, counted_newlines, lines,
                       prev_newline_index)

\* read_lines : [rest, lines]
read_lines(input, num_lines) ==
    LET r == ReadLinesFrom(input, num_lines, 0, 0, <<>>, 0)
    IN  IF r.prev_newline_index # 0
        THEN [rest |-> Skip(input, r.prev_newline_index), lines |-> r.lines]
        ELSE [rest |-> <<>>, lines |-> Append(r.lines, input)]

\* skip_sequence : [ok, rest]
skip_sequence(input, sequence) ==
    IF StartsWith(input, sequence)
    THEN [ok |-> TRUE, rest |-> Skip(input, Len(sequence))]
    ELSE [ok |-> FALSE, rest |-> input]

\* ---- edit.rs : the edit script -----------------------------------------

\* line + content.len() - 1 in usize: [panic, val].  With overflow checks
\* (a debug build) the subtraction from 0 panics; without them it wraps.
LastLine(half, overflow_checks) ==
    LET sum == half.line + Len(half.content)
    IN  IF sum = 0 /\ overflow_checks THEN [panic |-> TRUE, val |-> 0]
        ELSE [panic |-> FALSE, val |-> sum - 1]

\* the content lines, each with its prefix, joined by "\n"
RECURSIVE PrefixedLines(_, _)
PrefixedLines(prefix, content) ==
    IF content = <<>> THEN <<>>
    ELSE IF Len(content) = 1 THEN prefix \o LineChars(content[1])
    ELSE prefix \o LineChars(content[1]) \o <<"\n">> \o PrefixedLines(prefix, Tail(content))

OpChar(op) == IF op = "Insert" THEN "a" ELSE IF op = "Delete" THEN "d" ELSE "r"

\* Edit::to_edit_script : [panic, text]
to_edit_script(self, overflow_checks) ==
    LET og_end == LastLine(self.original, overflow_checks)
        mod_end == LastLine(self.modified, overflow_checks)
    IN  IF og_end.panic \/ mod_end.panic THEN [panic |-> TRUE, text |-> <<>>]
        ELSE [panic |-> FALSE,
              text |-> FormatUsize(self.original.line) \o <<",">> \o FormatUsize(og_end.val)
                       \o <<OpChar(self.op)>>
                       \o FormatUsize(self.modified.line) \o <<",">> \o FormatUsize(mod_end.val)
                       \o <<"\n">>
                       \o PrefixedLines(<<"<", " ">>, self.original.content)
                       \o <<"\n", "-", "-", "-", "\n">>
                       \o PrefixedLines(<<">", " ">>, self.modified.content)]

\* line_end - line_start + 1 in usize: [panic, val]
LineCount(line_start, line_end, overflow_checks) ==
    IF overflow_checks /\ (~UsizeGe(line_end, line_start) \/ line_end - line_start = -1)
    THEN [panic |-> TRUE, val |-> 0]
    ELSE [panic |-> FALSE, val |-> line_end - line_start + 1]

\* the loops that strip "< " or "> " from every line: [ok, content]
RECURSIVE StripAll(_, _)
StripAll(prefix, lines) ==
    IF lines = <<>> THEN [ok |-> TRUE, content |-> <<>>]
    ELSE IF ~StartsWith(lines[1], prefix) THEN [ok |-> FALSE, content |-> <<>>]
    ELSE LET rest == StripAll(prefix, Tail(lines))
         IN  [ok |-> rest.ok,
              content |-> <<LineOf(Skip(lines[1], Len(prefix)))>> \o rest.content]

NoEdit == Edit_new("Insert", 0, 0, <<>>, <<>>)

ParseFailed(err) == [ok |-> FALSE, panic |-> FALSE, err |-> err, rest |-> <<>>, edit |-> NoEdit]

ParsePanicked == [ok |-> FALSE, panic |-> TRUE, err |-> "panic", rest |-> <<>>, edit |-> NoEdit]

\* Edit::parse_edit_script : [ok, panic, err, rest, edit].  read_lines
\* allocates Vec::with_capacity(num_lines), which panics on a wrapped count.
parse_edit_script(script, overflow_checks) ==
    LET n1 == read_usize(script)
        s1 == skip_sequence(n1.rest, <<",">>)
        n2 == read_usize(s1.rest)
        r2 == n2.rest
        n3 == read_usize(Skip(r2, 1))
        s3 == skip_sequence(n3.rest, <<",">>)
        n4 == read_usize(s3.rest)
        s4 == skip_sequence(n4.rest, <<"\n">>)
        og_count == LineCount(n1.val, n2.val, overflow_checks)
        og == read_lines(s4.rest, og_count.val)
        s5 == skip_sequence(og.rest, <<"-", "-", "-", "\n">>)
        mod_count == LineCount(n3.val, n4.val, overflow_checks)
        mod == read_lines(s5.rest, mod_count.val)
        og_content == StripAll(<<"<", " ">>, og.lines)
        mod_content == StripAll(<<">", " ">>, mod.lines)
    IN  IF ~n1.ok THEN ParseFailed("ParseIntError")
        ELSE IF ~s1.ok THEN ParseFailed("Sequence not found at beginning of input string")
        ELSE IF ~n2.ok THEN ParseFailed("ParseIntError")
        ELSE IF r2 = <<>> THEN ParseFailed("No operation")
        ELSE IF r2[1] \notin {"r", "a", "d"} THEN ParseFailed("Invalid Operation")
        ELSE IF ~n3.ok THEN ParseFailed("ParseIntError")
        ELSE IF ~s3.ok THEN ParseFailed("Sequence not found at beginning of input string")
        ELSE IF ~n4.ok THEN ParseFailed("ParseIntError")
        ELSE IF ~s4.ok THEN ParseFailed("Sequence not found at beginning of input string")
        ELSE IF og_count.panic \/ og_count.val < 0 THEN ParsePanicked
        ELSE IF ~s5.ok THEN ParseFailed("Sequence not found at beginning of input string")
        ELSE IF mod_count.panic \/ mod_count.val < 0 THEN ParsePanicked
        ELSE IF ~og_content.ok \/ ~mod_content.ok THEN ParseFailed("Content formatted incorrectly")
        ELSE [ok |-> TRUE, panic |-> FALSE, err |-> "", rest |-> mod.rest,
              edit |-> [op |-> IF r2[1] = "r" THEN "Replace"
                               ELSE IF r2[1] = "a" THEN "Insert" ELSE "Delete",
                        original |-> [line |-> n1.val, content |-> og_content.content],
                        modified |-> [line |-> n3.val, content |-> mod_content.content]]]

\* ---- the edit script of a whole diff -----------------------------------
\* The scripts of the edits joined by newlines; the empty diff gives the
\* empty text.  [panic, text]
RECURSIVE edit_script(_, _)
edit_script(edits, overflow_checks) ==
    IF edits = <<>> THEN [panic |-> FALSE, text |-> <<>>]
    ELSE LET first == to_edit_script(edits[1], overflow_checks)
             others == edit_script(Tail(edits), overflow_checks)
         IN  IF first.panic \/ others.panic THEN [panic |-> TRUE, text |-> <<>>]
             ELSE IF Len(edits) = 1 THEN first
             ELSE [panic |-> FALSE, text |-> first.text \o <<"\n">> \o others.text]

\* The inverse: parse edit after edit until the text is used up.
\* [ok, panic, err, edits]
RECURSIVE from_edit_script(_, _)
from_edit_script(script, overflow_checks) ==
    IF script = <<>> THEN [ok |-> TRUE, panic |-> FALSE, err |-> "", edits |-> <<>>]
    ELSE LET first == parse_edit_script(script, overflow_checks)
             rest == IF StartsWith(first.rest, <<"\n">>) THEN Skip(first.rest, 1) ELSE first.rest
             others == from_edit_script(rest, overflow_checks)
         IN  IF ~first.ok
             THEN [ok |-> FALSE, panic |-> first.panic, err |-> first.err, edits |-> <<>>]
             ELSE IF ~others.ok THEN others
             ELSE [ok |-> TRUE, panic |-> FALSE, err |-> "",
                   edits |-> <<first.edit>> \o others.edits]

\* ---- the calls a user of the engine can make ---------------------------

\* let edits = myers::from(&a, &b)
MyersFrom ==
    /\ mphase = "input"
    /\ medits' = myers_from(ma, mb)
    /\ mphase' = IF medits'.panic THEN "panicked" ELSE "diffed"
    /\ UNCHANGED <<ma, mb, mchecks, mscript, mparsed, mjoin, gvars, dvars, rvars, cvars>>

\* the edit script of the diff
MyersSerialize ==
    /\ mphase = "diffed"
    /\ mscript' = edit_script(medits.edits, mchecks)
    /\ mphase' = IF mscript'.panic THEN "panicked" ELSE "serialized"
    /\ UNCHANGED <<ma, mb, mchecks, medits, mparsed, mjoin, gvars, dvars, rvars, cvars>>

\* the diff parsed from the edit script
MyersParse ==
    /\ mphase = "serialized"
    /\ mparsed' = from_edit_script(mscript.text, mchecks)
    /\ mphase' = IF mparsed'.panic THEN "panicked" ELSE "parsed"
    /\ UNCHANGED <<ma, mb, mchecks, medits, mscript, mjoin, gvars, dvars, rvars, cvars>>

\* self.join(edit) on two edits built by Edit::new
MyersJoin ==
    /\ mphase = "edits"
    /\ mjoin' = [mjoin EXCEPT !.res = Edit_join(mjoin.self, mjoin.edit)]
    /\ mphase' = "joined"
    /\ UNCHANGED <<ma, mb, mchecks, medits, mscript, mparsed, gvars, dvars, rvars, cvars>>

MyersNext == MyersFrom \/ MyersSerialize \/ MyersParse \/ MyersJoin

\* ------------------------------------------------------------------------
\* Part C: Commit::new, Commit::diff, Commit::write, Commit::from and
\* commit_hash_from_prefix as functions of their inputs
\* ------------------------------------------------------------------------

\* the 32 bytes of a commit digest: the model keeps what was fed to the
\* hasher, the bytes are the time, the entry hashes and zeroes
DigestBytes(hash) ==
    LET head == <<hash[2]>> \o hash[1]
    IN  head \o [i \in 1..(HashLen - Len(head)) |-> 0]

\* IDGraph::commit_hashes : the keys of the graph
commit_hashes(g) == DOMAIN g

\* A mutant of commit_hash_from_prefix: of several candidates the first is
\* returned.
commit_hash_from_prefix_FirstOfMany(gfile, prefix) ==
    IF Len(prefix) > HashLen
    THEN [ok |-> FALSE, err |-> "invalid commit hash prefix: too long", hash |-> NoCommit.hash]
    ELSE IF ~gfile.exists
    THEN [ok |-> FALSE, err |-> "io", hash |-> NoCommit.hash]
    ELSE LET candidates == {h \in commit_hashes(gfile.graph) :
                               StartsWith(DigestBytes(h), prefix)}
         IN  IF candidates = {}
             THEN [ok |-> FALSE, err |-> "No commits in the graph match the given prefix",
                   hash |-> NoCommit.hash]
             ELSE [ok |-> TRUE, err |-> "", hash |-> CHOOSE h \in candidates : TRUE]

\* commit_hash_from_prefix on the graph file: [ok, err, hash]
commit_hash_from_prefix(gfile, prefix) ==
    IF Len(prefix) > HashLen
    THEN [ok |-> FALSE, err |-> "invalid commit hash prefix: too long", hash |-> NoCommit.hash]
    ELSE IF ~gfile.exists
    THEN [ok |-> FALSE, err |-> "io", hash |-> NoCommit.hash]
    ELSE LET candidates == {h \in commit_hashes(gfile.graph) :
                               StartsWith(DigestBytes(h), prefix)}
         IN  IF candidates = {}
             THEN [ok |-> FALSE, err |-> "No commits in the graph match the given prefix",
                   hash |-> NoCommit.hash]
             ELSE IF Cardinality(candidates) > 1
             THEN [ok |-> FALSE, err |-> "Too many possible commits with the given prefix",
                   hash |-> NoCommit.hash]
             ELSE [ok |-> TRUE, err |-> "", hash |-> CHOOSE h \in candidates : TRUE]

NoOut == [call |-> "none", ok |-> FALSE, err |-> "", commit |-> NoCommit,
          edits |-> {}, prefix |-> <<>>, hash |-> NoCommit.hash]

\* Commit::new for the two trees
CommitNew ==
    /\ cphase = "input"
    /\ cbuilt' = [self |-> Commit_new(cin.tree, cin.paths, cin.time),
                  other |-> create_commit_from_wd(cin.other_tree, cin.other_time)]
    /\ cphase' = "built"
    /\ UNCHANGED <<cin, cstore, cgraph, cout, gvars, dvars, mvars, rvars>>

\* self.diff(other)
CommitDiff ==
    /\ cphase = "built"
    /\ cout' = [NoOut EXCEPT !.call = "diff", !.ok = TRUE,
                             !.edits = Commit_diff(cbuilt.self, cbuilt.other)]
    /\ cphase' = "diffed"
    /\ UNCHANGED <<cin, cbuilt, cstore, cgraph, gvars, dvars, mvars, rvars>>

\* self.write : the record of the commit under its digest
CommitWrite ==
    /\ cphase = "built"
    /\ cstore' = Put(cstore, cbuilt.self.hash, CommitRepr(cbuilt.self))
    /\ cphase' = "written"
    /\ UNCHANGED <<cin, cbuilt, cgraph, cout, gvars, dvars, mvars, rvars>>

\* the record file is rewritten from outside (tests::commit_from_incorrect_hash
\* rewrites it with another time): another time, the record of the other
\* commit, other permissions in an entry whose stored hash stays, or the
\* same entries stored in the opposite order
RecordAltered ==
    /\ cphase = "written"
    /\ LET repr == cstore[cbuilt.self.hash]
       IN  \E altered \in
                {[repr EXCEPT !.time = t] : t \in (0..MaxTime) \ {repr.time}}
                \cup {CommitRepr(cbuilt.other)}
                \cup {[repr EXCEPT !.files[i].permissions = p] :
                         i \in 1..Len(repr.files), p \in Perms}
                \cup {[repr EXCEPT !.files = Reverse(@)]} :
              /\ altered # repr
              /\ cstore' = Put(cstore, cbuilt.self.hash, altered)
    /\ cphase' = "altered"
    /\ UNCHANGED <<cin, cbuilt, cgraph, cout, gvars, dvars, mvars, rvars>>

\* Commit::from(self.hash()) : before the record is written, after, or after
\* it was altered
CommitFrom ==
    /\ cphase \in {"built", "written", "altered"}
    /\ LET r == Commit_from(cstore, cbuilt.self.hash)
       IN  cout' = [NoOut EXCEPT !.call = "from", !.ok = r.ok, !.err = r.err,
                                 !.commit = r.commit]
    /\ cphase' = "loaded"
    /\ UNCHANGED <<cin, cbuilt, cstore, cgraph, gvars, dvars, mvars, rvars>>

\* a graph file with some of the commits as keys, or none at all
GraphPersisted ==
    /\ cphase = "built"
    /\ \E keys \in SUBSET {cbuilt.self.hash, cbuilt.other.hash} :
          cgraph' \in {NoGraphYet, [exists |-> TRUE, graph |-> [k \in keys |-> IDNode]]}
    /\ cphase' = "graphed"
    /\ UNCHANGED <<cin, cbuilt, cstore, cout, gvars, dvars, mvars, rvars>>

\* commit_hash_from_prefix(prefix), for the first bytes of a commit digest,
\* a whole digest, a digest and one byte more, and bytes of no digest
PrefixCall ==
    /\ cphase = "graphed"
    /\ \E prefix \in
            {SubSeq(DigestBytes(h), 1, n) :
                h \in {cbuilt.self.hash, cbuilt.other.hash}, n \in {0, 1, 2, 3, HashLen}}
            \cup {DigestBytes(cbuilt.self.hash) \o <<0>>, <<255>>} :
          LET r == commit_hash_from_prefix(cgraph, prefix)
          IN  cout' = [NoOut EXCEPT !.call = "prefix", !.ok = r.ok, !.err = r.err,
                                    !.prefix = prefix, !.hash = r.hash]
    /\ cphase' = "resolved"
    /\ UNCHANGED <<cin, cbuilt, cstore, cgraph, gvars, dvars, mvars, rvars>>

CommitNext ==
    \/ CommitNew \/ CommitDiff \/ CommitWrite \/ RecordAltered \/ CommitFrom
    \/ GraphPersisted \/ PrefixCall

\* ---- initial states -----------------------------------------------------

GraphIdle ==
    /\ nodes = Graph_new
    /\ gres = "none"
    /\ gops = 0
    /\ gcall = [op |-> "none", from |-> 0, to |-> 0, pre |-> Graph_new]

DiffIdle ==
    /\ da = <<>>
    /\ db = <<>>
    /\ dphase = "idle"
    /\ dres = NoResult

MyersIdle ==
    /\ ma = <<>>
    /\ mb = <<>>
    /\ mchecks = TRUE
    /\ mphase = "idle"
    /\ medits = [panic |-> FALSE, edits |-> <<>>]
    /\ mscript = [panic |-> FALSE, text |-> <<>>]
    /\ mparsed = [ok |-> FALSE, panic |-> FALSE, err |-> "", edits |-> <<>>]
    /\ mjoin = NoJoin

CommitIdle ==
    /\ cin = [tree |-> <<>>, paths |-> <<>>, time |-> 0, other_tree |-> <<>>, other_time |-> 0]
    /\ cphase = "idle"
    /\ cbuilt = [self |-> NoCommit, other |-> NoCommit]
    /\ cstore = <<>>
    /\ cgraph = NoGraphYet
    /\ cout = NoOut

RepoIdle ==
    /\ wd = <<>>
    /\ cwd = "."
    /\ now = 1
    /\ dirs = {}
    /\ blobs = <<>>
    /\ created = <<>>
    /\ commitDir = <<>>
    /\ graphFile = NoGraphYet
    /\ cursorFile = NoFileYet
    /\ pc = "idle"
    /\ frame = NoOp
    /\ ret = NoRet
    /\ pre = NoPre
    /\ ncalls = 0
    /\ nuser = 0

\* Graph::new()
GraphInit == GraphIdle /\ DiffIdle /\ RepoIdle /\ MyersIdle /\ CommitIdle

\* any two line sequences, before Diff::from
DiffInit ==
    /\ da \in LineSeqs
    /\ db \in LineSeqs
    /\ dphase = "input"
    /\ dres = NoResult
    /\ GraphIdle
    /\ RepoIdle
    /\ MyersIdle
    /\ CommitIdle

\* any two line sequences and either build, before myers::from; or any two
\* edits of Edit::new, before Edit::join
MyersInit ==
    /\ \/ /\ ma \in LineSeqs
          /\ mb \in LineSeqs
          /\ mchecks \in BOOLEAN
          /\ mphase = "input"
          /\ mjoin = NoJoin
       \/ /\ ma = <<>>
          /\ mb = <<>>
          /\ mchecks = TRUE
          /\ mphase = "edits"
          /\ mjoin \in [self : EditInputs, edit : EditInputs, res : {NoJoin.res}]
    /\ medits = [panic |-> FALSE, edits |-> <<>>]
    /\ mscript = [panic |-> FALSE, text |-> <<>>]
    /\ mparsed = [ok |-> FALSE, panic |-> FALSE, err |-> "", edits |-> <<>>]
    /\ GraphIdle
    /\ DiffIdle
    /\ RepoIdle
    /\ CommitIdle

\* two trees, a list of the files of the first and two times, before
\* Commit::new
CommitInit ==
    /\ \E w, other \in UNION {[S -> [permissions : Perms, content : Contents]] :
                                    S \in SUBSET Paths} :
          cin \in [tree : {w}, paths : WalkOrders(w), time : 0..MaxTime,
                   other_tree : {other}, other_time : 0..MaxTime]
    /\ cphase = "input"
    /\ cbuilt = [self |-> NoCommit, other |-> NoCommit]
    /\ cstore = <<>>
    /\ cgraph = NoGraphYet
    /\ cout = NoOut
    /\ GraphIdle
    /\ DiffIdle
    /\ RepoIdle
    /\ MyersIdle

\* an empty project directory, before init
RepoInit == RepoIdle /\ GraphIdle /\ DiffIdle /\ MyersIdle /\ CommitIdle

RepoNext ==
    \/ UserWrite \/ UserRemove \/ Chdir \/ Tick
    \/ InitCall \/ InitCommitDir \/ InitDataDir \/ InitWrite
    \/ InitCursorInit \/ InitCursorSet \/ InitGraphFile
    \/ CommitCall \/ CommitWriteBlob \/ CommitWriteRecord \/ CommitAddToGraph
    \/ CommitCursorSet \/ CommitGraphWrite
    \/ GoCall \/ GoApplyEdit \/ GoCursorSet
    \/ IoError

vars == <<gvars, dvars, rvars, mvars, cvars>>

SpecGraph == GraphInit /\ [][GraphNext]_vars

SpecDiff == DiffInit /\ [][DiffNext]_vars

SpecRepo == RepoInit /\ [][RepoNext]_vars

SpecMyers == MyersInit /\ [][MyersNext]_vars
SpecCommit == CommitInit /\ [][CommitNext]_vars

\* ------------------------------------------------------------------------
\* C1: edge symmetry. After any sequence of add_node, add_edge, remove_edge
\* and remove_node calls, successful or failing, on an initially empty graph,
\* v is in the pointing_to list of u iff u is in the pointed_to list of v,
\* for every pair of keys u, v (u = v included).
\* ------------------------------------------------------------------------
EdgeSymmetry ==
    \A u \in NodeIds, v \in NodeIds :
        (HasKey(nodes, u) /\ Contains(nodes[u].pointing_to, v))
            <=> (HasKey(nodes, v) /\ Contains(nodes[v].pointed_to, u))

\* A self-loop and an edge between two nodes are both present, after a call
\* has failed.
EdgeSymmetryWitness ==
    /\ \E u \in DOMAIN nodes : Contains(nodes[u].pointing_to, u)
    /\ \E u \in DOMAIN nodes, v \in DOMAIN nodes :
          u # v /\ Contains(nodes[u].pointing_to, v)
    /\ gres \notin {"none", "ok"}

\* ------------------------------------------------------------------------
\* C9: Myers correctness. For all line sequences a and b, applying the edits
\* of Diff::from(a, b) to a file whose lines are a completes without error or
\* panic and leaves the file with exactly the lines of b.
\* ------------------------------------------------------------------------
ApplyYieldsB ==
    dphase = "applied" => (~dres.panic /\ dres.out = db)

\* ------------------------------------------------------------------------
\* C10: rollback law. For all line sequences a and b, rolling back
\* Diff::from(a, b) on a file whose lines are b completes without error or
\* panic and leaves the file with exactly the lines of a.
\* ------------------------------------------------------------------------
RollbackYieldsA ==
    dphase = "rolledback" => (~dres.panic /\ dres.out = da)

\* ------------------------------------------------------------------------
\* Notions the repository claims are stated in
\* ------------------------------------------------------------------------
\* the (path, permissions, content digest) entries of a working tree
TreeEntries(w) == {<<p, w[p].permissions, ContentDigest(w[p].content)>> : p \in DOMAIN w}

\* the (path, permissions, content digest) entries of a commit
CommitEntries(commit) ==
    {<<commit.files[i].path, commit.files[i].permissions, commit.files[i].content>> :
        i \in 1..Len(commit.files)}

\* the edges of a persisted graph, read off the children lists and off the
\* parents lists
ChildEdges(g) == UNION {{<<u, g[u].children[i]>> : i \in 1..Len(g[u].children)} : u \in DOMAIN g}

ParentEdges(g) == UNION {{<<g[v].parents[i], v>> : i \in 1..Len(g[v].parents)} : v \in DOMAIN g}

\* the nodes reachable from the set S in at most n more steps along children
RECURSIVE Reach(_, _, _)
Reach(g, S, n) ==
    IF n = 0 THEN S
    ELSE Reach(g, S \cup UNION {SeqToSet(g[u].children) \cap DOMAIN g : u \in S}, n - 1)

NoCycle(g) ==
    \A u \in DOMAIN g :
        u \notin Reach(g, SeqToSet(g[u].children) \cap DOMAIN g, Cardinality(DOMAIN g))

\* ------------------------------------------------------------------------
\* C2: write order within one commit() call. The commit record is written
\* only when every blob of the commit is in data/, the graph file is written
\* only when the commit record is in commit/, and the cursor file is changed
\* only when the graph file already holds the new commit.
\* ------------------------------------------------------------------------
CommitWriteOrder ==
    [][frame.call = "commit" =>
          /\ (commitDir' # commitDir =>
                 \A i \in 1..Len(frame.commit.files) :
                     frame.commit.files[i].content \in DOMAIN blobs)
          /\ (graphFile' # graphFile => frame.commit.hash \in DOMAIN commitDir)
          /\ (cursorFile' # cursorFile =>
                 graphFile.exists /\ frame.commit.hash \in DOMAIN graphFile.graph)]_vars

\* ------------------------------------------------------------------------
\* C3: in every reachable state of the repository, the states between the
\* steps of init and commit and the states a failed call leaves behind
\* included, every content digest a commit record under commit/ references
\* has its blob under data/.
\* ------------------------------------------------------------------------
RecordsReferenceBlobs ==
    \A h \in DOMAIN commitDir :
        \A i \in 1..Len(commitDir[h].files) :
            commitDir[h].files[i].content \in DOMAIN blobs

\* commit() has failed part-way, leaving a blob no record references, next
\* to a record that references a blob.
RecordsReferenceBlobsWitness ==
    /\ ret.call = "commit"
    /\ ret.res = "io"
    /\ \E d \in DOMAIN blobs :
          \A h \in DOMAIN commitDir :
              \A i \in 1..Len(commitDir[h].files) : commitDir[h].files[i].content # d
    /\ \E h \in DOMAIN commitDir : Len(commitDir[h].files) > 0

\* ------------------------------------------------------------------------
\* C4, as stated: in every state in which the cursor file exists, its
\* content is exactly 32 bytes, the digest of a commit record present under
\* commit/.
\* ------------------------------------------------------------------------
CursorAlwaysNamesRecord ==
    cursorFile.exists =>
        /\ CursorBytes(cursorFile) = HashLen
        /\ cursorFile.content[1] \in DOMAIN commitDir

\* ------------------------------------------------------------------------
\* C4, amended: in every state in which the cursor file exists, its content
\* is either empty (as cursor::init creates it, until a cursor::set
\* succeeds) or exactly 32 bytes that are the digest of a commit record
\* present under commit/; and cursor::get fails with the wrong-length error
\* whenever the length is not 32.
\* ------------------------------------------------------------------------
CursorEmptyOrNamesRecord ==
    cursorFile.exists =>
        /\ \/ CursorBytes(cursorFile) = 0
           \/ /\ CursorBytes(cursorFile) = HashLen
              /\ cursorFile.content[1] \in DOMAIN commitDir
        /\ CursorBytes(cursorFile) # HashLen =>
              /\ ~cursor_get(cursorFile, commitDir).ok
              /\ cursor_get(cursorFile, commitDir).err = "Cursor hash is wrong length"

\* init has failed after cursor::init and before cursor::set: the cursor
\* file is left empty, and a later go() has failed on it in cursor::get.
CursorEmptyOrNamesRecordWitness ==
    /\ cursorFile.exists
    /\ CursorBytes(cursorFile) = 0
    /\ ret.call = "go"
    /\ ret.res = "Cursor hash is wrong length"

\* ------------------------------------------------------------------------
\* C5: a successful commit() adds to the persisted graph exactly one node,
\* the digest of the new commit, and exactly one edge, from the commit the
\* cursor named before the call to the new commit; every other node and edge
\* is as before, and the cursor names the new commit.
\* ------------------------------------------------------------------------
CommitAddsOneNodeOneEdge ==
    (ret.call = "commit" /\ ret.res = "ok") =>
        LET g0 == pre.graphFile.graph
            g1 == graphFile.graph
            new == ret.commit.hash
            old == pre.cursorFile.content[1]
        IN  /\ new \notin DOMAIN g0
            /\ DOMAIN g1 = (DOMAIN g0) \cup {new}
            /\ <<old, new>> \notin ChildEdges(g0)
            /\ ChildEdges(g1) = ChildEdges(g0) \cup {<<old, new>>}
            /\ ParentEdges(g1) = ParentEdges(g0) \cup {<<old, new>>}
            /\ \A k \in (DOMAIN g0) \ {old, new} : g1[k] = g0[k]
            /\ cursorFile = [exists |-> TRUE, content |-> <<new>>]

\* commit() has succeeded on a graph that already held two commits
CommitAddsOneNodeOneEdgeWitness ==
    /\ ret.call = "commit"
    /\ ret.res = "ok"
    /\ Cardinality(DOMAIN pre.graphFile.graph) >= 2
    /\ Cardinality(DOMAIN graphFile.graph) >= 3

\* ------------------------------------------------------------------------
\* C6: after any sequence of init, commit() and go() calls the persisted
\* commit graph has no cycle and no self-loop.
\* ------------------------------------------------------------------------
PersistedGraphAcyclic ==
    graphFile.exists => NoCycle(graphFile.graph)

\* ------------------------------------------------------------------------
\* C7: when go(target) returns success, from any current directory at or
\* below the project root, the (path, permissions, content) entries of the
\* working tree are those of target and the cursor names target.
\* ------------------------------------------------------------------------
GoReachesTarget ==
    (ret.call = "go" /\ ret.res = "ok") =>
        /\ TreeEntries(wd) = CommitEntries(ret.commit)
        /\ cursorFile = [exists |-> TRUE, content |-> <<ret.commit.hash>>]

\* ------------------------------------------------------------------------
\* C8: go(target) called when the working tree differs from the cursor
\* commit in a path, a permission or a content fails with the dirty error,
\* having changed no file of the working tree and not the cursor.
\* ------------------------------------------------------------------------
GoOnDirtyTreeFails ==
    (/\ ret.call = "go"
     /\ ".ink" \in dirs
     /\ cursor_get(pre.cursorFile, commitDir).ok
     /\ TreeEntries(pre.wd) # CommitEntries(cursor_get(pre.cursorFile, commitDir).commit))
        => /\ ret.res = DirtyError
           /\ wd = pre.wd
           /\ cursorFile = pre.cursorFile

\* go has returned the dirty error on a tree that holds the paths of the
\* cursor commit, one of them with another content or mode, for a target
\* other than the cursor commit.
GoOnDirtyTreeFailsWitness ==
    /\ ret.call = "go"
    /\ ret.res = DirtyError
    /\ cursor_get(pre.cursorFile, commitDir).ok
    /\ LET from == cursor_get(pre.cursorFile, commitDir).commit
       IN  /\ DOMAIN pre.wd = CommitPaths(from)
           /\ TreeEntries(pre.wd) # CommitEntries(from)
           /\ ret.commit.hash # from.hash


\* ------------------------------------------------------------------------
\* C11: edit-script round trip. For every diff the Myers engine produces
\* from two line sequences, the edit script of the diff is produced without
\* panic, and parsing it succeeds and yields a diff equal to the first.
\* ------------------------------------------------------------------------
EditScriptRoundTrip ==
    /\ mphase = "panicked" => medits.panic
    /\ mphase = "parsed" => (mparsed.ok /\ mparsed.edits = medits.edits)

\* ---- claims about commit.rs (SpecCommit) ----------------------------------

\* the entry of the file at path p of the tree w, from the tree alone
EntryOf(w, p) ==
    [hash |-> EntryDigest(p, w[p].permissions, ContentDigest(w[p].content)),
     path |-> p,
     permissions |-> w[p].permissions,
     content |-> ContentDigest(w[p].content)]

\* C12: self.diff(other) holds exactly one Insert for every path only in
\* other, one Delete for every path only in self, one Modify {original of
\* self, modified of other} for every path in both whose entry digests
\* differ, and nothing else; so a commit against itself, or against a commit
\* of the same entries at another time, has no edits.
CommitDiffExact ==
    cphase = "diffed" =>
        LET w == cin.tree
            o == cin.other_tree
            inserts == {[kind |-> "Insert", original |-> EntryOf(o, p), modified |-> EntryOf(o, p)] :
                           p \in (DOMAIN o) \ (DOMAIN w)}
            deletes == {[kind |-> "Delete", original |-> EntryOf(w, p), modified |-> EntryOf(w, p)] :
                           p \in (DOMAIN w) \ (DOMAIN o)}
            changed == {p \in (DOMAIN w) \cap (DOMAIN o) : EntryOf(w, p).hash # EntryOf(o, p).hash}
            modifies == {[kind |-> "Modify", original |-> EntryOf(w, p), modified |-> EntryOf(o, p)] :
                            p \in changed}
        IN  /\ cout.edits = inserts \cup deletes \cup modifies
            /\ Cardinality(cout.edits) =
                   Cardinality((DOMAIN o) \ (DOMAIN w)) + Cardinality((DOMAIN w) \ (DOMAIN o))
                   + Cardinality(changed)
            /\ (w = o => cout.edits = {})

CommitDiffExactWitness ==
    /\ cphase = "diffed"
    /\ cin.time # cin.other_time
    /\ \E e1 \in cout.edits, e2 \in cout.edits :
          /\ e1.kind = "Modify" /\ e1.original.path = "a"
          /\ e1.original.permissions # e1.modified.permissions
          /\ e2.kind = "Delete" /\ e2.original.path = "sub/a"

\* C16: for a fixed time, Commit::new gives the same digest and the same
\* commit for every order of the same list of paths; the digest depends only
\* on the set of entry digests and the time.
EntryDigests(w) == {EntryOf(w, p).hash : p \in DOMAIN w}

CommitDigestOrderFree ==
    (cphase = "built" /\ EntryDigests(cin.tree) = EntryDigests(cin.other_tree)
                      /\ cin.time = cin.other_time)
        => (cbuilt.self.hash = cbuilt.other.hash /\ cbuilt.self = cbuilt.other)

CommitDigestOrderFreeWitness ==
    /\ cphase = "built"
    /\ cin.tree = cin.other_tree
    /\ cin.time = cin.other_time
    /\ Len(cin.paths) = 2
    /\ cin.paths # find_paths(cin.other_tree)
    /\ cbuilt.self.files[1].path # cin.paths[1]

\* C17: for every commit c of Commit::new, c.write and then
\* Commit::from(c.hash()) succeeds and returns a commit equal to c in digest,
\* entries (in the same order) and time.
CommitRecordRoundTrip ==
    (/\ cphase = "loaded"
     /\ cbuilt.self.hash \in DOMAIN cstore
     /\ cstore[cbuilt.self.hash] = CommitRepr(cbuilt.self))
        => /\ cout.ok
           /\ cout.commit.hash = cbuilt.self.hash
           /\ cout.commit.files = cbuilt.self.files
           /\ cout.commit.time = cbuilt.self.time

CommitRecordRoundTripWitness ==
    /\ cphase = "loaded"
    /\ cbuilt.self.hash \in DOMAIN cstore
    /\ cstore[cbuilt.self.hash] = CommitRepr(cbuilt.self)
    /\ Len(cbuilt.self.files) = 2
    /\ cbuilt.self.time > 0
    /\ cout.ok

\* the digest recomputed from a stored record: the stored entry hashes in
\* ascending order, and the stored time
StoredHashes(repr) ==
    LET hashes == {repr.files[i].hash : i \in 1..Len(repr.files)}
    IN  [hash \in hashes |-> Cardinality({i \in 1..Len(repr.files) : repr.files[i].hash = hash})]

\* C18 as stated: Commit::from(digest) returns a commit only if the digest
\* recomputed from the stored entries and time is the requested one; if the
\* stored record was altered it fails with 'Actual hash of commit does not
\* match given hash of commit', and if there is no record file it fails with
\* 'Given commit hash does not exist on disk'.
CommitFromRejectsAltered ==
    cphase = "loaded" =>
        IF cbuilt.self.hash \notin DOMAIN cstore
        THEN ~cout.ok /\ cout.err = "Given commit hash does not exist on disk"
        ELSE LET stored == cstore[cbuilt.self.hash]
             IN  /\ cout.ok => /\ StoredHashes(stored) = StoredHashes(CommitRepr(cbuilt.self))
                               /\ stored.time = cbuilt.self.time
                 /\ stored # CommitRepr(cbuilt.self)
                        => /\ ~cout.ok
                           /\ cout.err = "Actual hash of commit does not match given hash of commit"

\* C18 amended: the same, for a record altered in its time or in the hash of
\* an entry; a record altered only in the path, permissions or content hash
\* of an entry is returned.
CommitFromRejectsOtherDigest ==
    cphase = "loaded" =>
        IF cbuilt.self.hash \notin DOMAIN cstore
        THEN ~cout.ok /\ cout.err = "Given commit hash does not exist on disk"
        ELSE LET stored == cstore[cbuilt.self.hash]
                 same_digest == /\ StoredHashes(stored) = StoredHashes(CommitRepr(cbuilt.self))
                                /\ stored.time = cbuilt.self.time
             IN  /\ cout.ok <=> same_digest
                 /\ ~same_digest
                        => cout.err = "Actual hash of commit does not match given hash of commit"

CommitFromRejectsOtherDigestWitness ==
    /\ cphase = "loaded"
    /\ cbuilt.self.hash \in DOMAIN cstore
    /\ cstore[cbuilt.self.hash].time # cbuilt.self.time
    /\ cstore[cbuilt.self.hash].files = cbuilt.self.files
    /\ Len(cbuilt.self.files) > 0
    /\ ~cout.ok
    /\ cout.err = "Actual hash of commit does not match given hash of commit"

\* C19: commit_hash_from_prefix(P) returns D if and only if P has at most 32
\* bytes and D is the only key of the persisted graph that starts with P; it
\* fails when no key does, when several do, and when P is longer.
PrefixMatches ==
    {k \in (IF cgraph.exists THEN DOMAIN cgraph.graph ELSE {}) :
        /\ Len(cout.prefix) <= Len(DigestBytes(k))
        /\ \A i \in 1..Len(cout.prefix) : cout.prefix[i] = DigestBytes(k)[i]}

PrefixResolvesUnique ==
    cphase = "resolved" =>
        /\ cout.ok <=> (Len(cout.prefix) <= 32 /\ Cardinality(PrefixMatches) = 1)
        /\ cout.ok => PrefixMatches = {cout.hash}
        /\ PrefixMatches = {} => ~cout.ok
        /\ Cardinality(PrefixMatches) > 1 => ~cout.ok
        /\ Len(cout.prefix) > 32 => ~cout.ok

PrefixResolvesUniqueWitness ==
    /\ cphase = "resolved"
    /\ cout.ok
    /\ Len(cout.prefix) = 2
    /\ Cardinality(DOMAIN cgraph.graph) = 2
    /\ cout.hash = cbuilt.other.hash

\* ---- claims about graph.rs (SpecGraph) -----------------------------------

\* C13: after any sequence of add_node, add_edge, remove_edge and remove_node
\* calls on an empty graph, no list holds the same id twice and every id in
\* a list is a key of the graph.
NoDuplicateNoDanglingEdge ==
    \A k \in DOMAIN nodes :
        /\ \A i, j \in 1..Len(nodes[k].pointing_to) :
               nodes[k].pointing_to[i] = nodes[k].pointing_to[j] => i = j
        /\ \A i, j \in 1..Len(nodes[k].pointed_to) :
               nodes[k].pointed_to[i] = nodes[k].pointed_to[j] => i = j
        /\ \A i \in 1..Len(nodes[k].pointing_to) : nodes[k].pointing_to[i] \in DOMAIN nodes
        /\ \A i \in 1..Len(nodes[k].pointed_to) : nodes[k].pointed_to[i] \in DOMAIN nodes

\* remove_node has removed a node that had an edge to and an edge from
\* another node, and an edge of that other node is left.
NoDuplicateNoDanglingEdgeWitness ==
    /\ gcall.op = "remove_node"
    /\ gres = "ok"
    /\ \E v \in DOMAIN nodes :
          /\ Contains(gcall.pre[gcall.from].pointing_to, v)
          /\ Contains(gcall.pre[gcall.from].pointed_to, v)
          /\ nodes[v].pointing_to = <<v>>
          /\ nodes[v].pointed_to = <<v>>

\* C14: add_node(id) fails iff id is a key; remove_node(id) iff it is not;
\* add_edge(from, to) iff an endpoint is absent or the edge is there already;
\* remove_edge(from, to) iff an endpoint is absent or the edge is not there,
\* and then, both endpoints present, with 'No edge exists ...'.
GraphCallFailsExactly ==
    LET g == gcall.pre
        from == gcall.from
        to == gcall.to
        failed == gres # "ok"
        absent == from \notin DOMAIN g \/ to \notin DOMAIN g
    IN  /\ gcall.op = "add_node" => (failed <=> from \in DOMAIN g)
        /\ gcall.op = "remove_node" => (failed <=> from \notin DOMAIN g)
        /\ gcall.op = "add_edge" =>
               (failed <=> (absent \/ \E i \in 1..Len(g[from].pointing_to) :
                                          g[from].pointing_to[i] = to))
        /\ gcall.op = "remove_edge" =>
               /\ failed <=> (absent \/ \A i \in 1..Len(g[from].pointing_to) :
                                            g[from].pointing_to[i] # to)
               /\ (failed /\ ~absent) =>
                      gres = "No edge exists between the 'from' node and the 'to' node"

\* remove_edge of an edge that is not there, between two nodes that are
GraphCallFailsExactlyWitness ==
    /\ gcall.op = "remove_edge"
    /\ gcall.from \in DOMAIN gcall.pre
    /\ gcall.to \in DOMAIN gcall.pre
    /\ gcall.from # gcall.to
    /\ gres = "No edge exists between the 'from' node and the 'to' node"
    /\ gops >= 5

\* ---- claims about init, and about the blobs (SpecRepo) --------------------

\* C15: immediately after a successful init the graph file holds exactly one
\* node, the digest of the empty commit, with empty parents and children;
\* the cursor resolves to the empty commit; and the diff of the cursor
\* commit against itself has no edits.
InitLeavesEmptyCommit ==
    (ret.call = "init" /\ ret.res = "ok") =>
        LET cursor == cursor_get(cursorFile, commitDir)
        IN  /\ graphFile.exists
            /\ \E h \in DOMAIN graphFile.graph :
                  /\ DOMAIN graphFile.graph = {h}
                  /\ graphFile.graph[h].parents = <<>>
                  /\ graphFile.graph[h].children = <<>>
                  /\ h \in DOMAIN commitDir
                  /\ commitDir[h].files = <<>>
                  /\ cursorFile.exists
                  /\ cursorFile.content = <<h>>
                  /\ cursor.ok
                  /\ cursor.commit.hash = h
            /\ cursor.commit.files = <<>>
            /\ Commit_diff(cursor.commit, cursor.commit) = {}

\* init has succeeded in a directory that has a file
InitLeavesEmptyCommitWitness ==
    /\ ret.call = "init"
    /\ ret.res = "ok"
    /\ pc = "idle"
    /\ wd # <<>>

\* C20: once a blob file data/<digest> exists, no step of commit() or go()
\* (Content::write included) modifies, creates again or deletes it; a second
\* entry with the same content has the same blob and leaves it as it is.
BlobsNeverTouched ==
    [][\A d \in DOMAIN blobs :
           /\ d \in DOMAIN blobs'
           /\ blobs'[d] = blobs[d]
           /\ created'[d] = created[d]]_vars

\* Commit::write has gone through two entries with the same content
BlobsNeverTouchedWitness ==
    /\ pc = "commit_write"
    /\ Len(frame.commit.files) = 2
    /\ frame.i = 3
    /\ frame.commit.files[1].content = frame.commit.files[2].content
    /\ frame.commit.files[1].content \in DOMAIN blobs
    /\ created[frame.commit.files[1].content] = 1

\* ---- further claims about commit() and go() (SpecRepo) -------------------

\* C21: commit() on a tree of which the cursor already names the commit of
\* this very second succeeds, returns that commit, and leaves the graph file
\* and the cursor file as they were (failures of the disk aside).
CommitTwiceIdempotent ==
    LET h == create_commit_from_wd(wd, now).hash
    IN  (/\ ret.call = "commit"
         /\ ret.res # "io"
         /\ pre.wd = wd
         /\ pre.cursorFile = [exists |-> TRUE, content |-> <<h>>]
         /\ pre.graphFile.exists
         /\ h \in DOMAIN pre.graphFile.graph)
            => /\ ret.res = "ok"
               /\ ret.commit.hash = h
               /\ graphFile = pre.graphFile
               /\ cursorFile = pre.cursorFile

\* ---- further claims about the Myers engine (SpecMyers) --------------------

\* the invariant of an Edit: an Insert has no original content, a Delete no
\* modified content, and the op is Replace exactly when both sides have some
EditInvariant(e) ==
    /\ e.op = "Insert" => e.original.content = <<>>
    /\ e.op = "Delete" => e.modified.content = <<>>
    /\ e.op = "Replace" <=> (e.original.content # <<>> /\ e.modified.content # <<>>)

\* every edit myers::from returns satisfies the invariant of an Edit
MyersEditsKeepInvariant ==
    mphase \in {"diffed", "serialized", "parsed"}
        => \A i \in DOMAIN medits.edits : EditInvariant(medits.edits[i])

\* a join of two edits that satisfy the invariant and have content on some
\* side gives an edit that satisfies it
JoinKeepsInvariantOfNonEmpty ==
    (mphase = "joined" /\ mjoin.res.ok
        /\ EditInvariant(mjoin.self) /\ EditInvariant(mjoin.edit)
        /\ mjoin.self.original.content \o mjoin.self.modified.content # <<>>
        /\ mjoin.edit.original.content \o mjoin.edit.modified.content # <<>>)
        => EditInvariant(mjoin.res.edit)

\* C22: every edit myers::from returns satisfies the invariant of an Edit, and
\* so does the edit of every successful join of two edits that satisfy it.
EditInvariantKept ==
    /\ MyersEditsKeepInvariant
    /\ (mphase = "joined" /\ mjoin.res.ok
            /\ EditInvariant(mjoin.self) /\ EditInvariant(mjoin.edit))
           => EditInvariant(mjoin.res.edit)

\* ---- a further claim about the older Diff (SpecDiff) ----------------------

\* the call of apply_edits the last Apply or Rollback made: [made, edits, file]
AppliedEdits ==
    LET d == Diff_from(da, db)
        r == RollbackFrom(d.edits, 1, 0, <<>>)
    IN  IF dphase = "applied"
        THEN [made |-> ~d.panic, edits |-> d.edits, file |-> da]
        ELSE [made |-> dphase = "rolledback" /\ ~d.panic /\ ~r.panic,
              edits |-> r.edits, file |-> db]

\* the loop of that call over the lines of the file
AppliedLoop ==
    ApplyFrom(AppliedEdits.edits, AppliedEdits.file, 0,
              [ltd |-> 0, idx |-> 0, last |-> 0, out |-> <<>>])

\* that call reached the end of the file with edits not yet consumed
EditsLeftOver ==
    /\ AppliedEdits.made
    /\ AppliedEdits.edits # <<>>
    /\ ~AppliedLoop.panic
    /\ AppliedLoop.st.idx < Len(AppliedEdits.edits)

\* C23: when apply_edits reaches the end of the file with edits left over, a
\* single Insert left over is appended to the output; in every other case the
\* call returns without a panic and leaves the file as it was.
LeftOverEditsHandled ==
    EditsLeftOver =>
        LET edits == AppliedEdits.edits
            idx == AppliedLoop.st.idx
        IN  /\ ~dres.panic
            /\ IF idx = Len(edits) - 1 /\ edits[idx + 1].operation = "Insert"
               THEN dres.out = AppliedLoop.st.out \o edits[idx + 1].content
               ELSE dres.out = AppliedEdits.file

\* the two cases of C23 that the end of a file can meet
LeftOverInsertSeen ==
    EditsLeftOver /\ AppliedLoop.st.idx = Len(AppliedEdits.edits) - 1
        /\ AppliedEdits.edits[Len(AppliedEdits.edits)].operation = "Insert"

LeftOverOtherSeen == EditsLeftOver /\ ~LeftOverInsertSeen

\* ---- a further claim about commit.rs (SpecCommit) -------------------------

\* ascending by the hash of the entries
SortedByHash(files) ==
    \A i \in 1..(Len(files) - 1) : files[i].hash <= files[i + 1].hash

\* C24: the files of every commit, built by Commit::new from paths in any
\* order or loaded by Commit::from from a record with its entries in any
\* order, are sorted ascending by the hash of the entries.
CommitFilesSorted ==
    /\ cphase \notin {"idle", "input"}
           => SortedByHash(cbuilt.self.files) /\ SortedByHash(cbuilt.other.files)
    /\ (cphase = "loaded" /\ cout.ok) => SortedByHash(cout.commit.files)

\* a commit built from paths not in the order of the hashes, its record
\* stored with the entries the other way round and loaded again: the entries
\* come back in the order of the hashes, which is not that of the paths
CommitFilesSortedWitness ==
    /\ cphase = "loaded"
    /\ cout.ok
    /\ Len(cout.commit.files) = 2
    /\ cin.paths[1] # cbuilt.self.files[1].path
    /\ cstore[cbuilt.self.hash].files = Reverse(cbuilt.self.files)
    /\ cout.commit.files = cbuilt.self.files
    /\ cout.commit.files[1].hash < cout.commit.files[2].hash
    /\ cout.commit.files[1].path = "sub/a"
    /\ cout.commit.files[2].path = "a"

\* ---- claims about myers::from (SpecMyers) ---------------------------------

\* myers::from has been called
MyersFromCalled == mphase \in {"diffed", "serialized", "parsed", "panicked"}

\* the 0-based lines a half of some edit covers
CoveredLines(edits, side) ==
    UNION {{edits[i][side].line + j : j \in 0..(Len(edits[i][side].content) - 1)} :
              i \in DOMAIN edits}

\* the lines of s from position i on that no edit covers, in order
RECURSIVE Uncovered(_, _, _)
Uncovered(s, covered, i) ==
    IF i > Len(s) THEN <<>>
    ELSE (IF (i - 1) \in covered THEN <<>> ELSE <<s[i]>>) \o Uncovered(s, covered, i + 1)

\* the content of a half is the lines of s it says it covers
HalfMatches(half, s) ==
    /\ half.line >= 0
    /\ half.line + Len(half.content) <= Len(s)
    /\ \A j \in 1..Len(half.content) : half.content[j] = s[half.line + j]

\* the edits are in increasing order on both sides, carry the lines of a and
\* of b they cover, and leave equal lines outside
EditsDescribe(edits, a, b) ==
    /\ \A i \in 1..(Len(edits) - 1) :
           /\ edits[i].original.line < edits[i + 1].original.line
           /\ edits[i].modified.line < edits[i + 1].modified.line
    /\ \A i \in DOMAIN edits :
           /\ HalfMatches(edits[i].original, a)
           /\ HalfMatches(edits[i].modified, b)
    /\ Uncovered(a, CoveredLines(edits, "original"), 1)
           = Uncovered(b, CoveredLines(edits, "modified"), 1)

\* C25: for all a and b, myers::from(a, b) returns without a panic a list of
\* edits in strictly increasing order of original.line and of modified.line,
\* each carrying the lines of a and of b it covers, with the lines of a and
\* of b outside all edits pairwise equal in order.
MyersEditsCorrect ==
    MyersFromCalled => (~medits.panic /\ EditsDescribe(medits.edits, ma, mb))

\* the same for every call that returns
MyersEditsCorrectWhenReturned ==
    (MyersFromCalled /\ ~medits.panic) => EditsDescribe(medits.edits, ma, mb)

\* myers::from returns unless both sequences are empty
MyersFromPanicsOnlyOnEmpty ==
    MyersFromCalled => (medits.panic <=> (ma = <<>> /\ mb = <<>>))

\* the length of a longest common subsequence of a and b
RECURSIVE LCS(_, _)
LCS(a, b) ==
    IF a = <<>> \/ b = <<>> THEN 0
    ELSE IF Head(a) = Head(b) THEN 1 + LCS(Tail(a), Tail(b))
    ELSE LET p == LCS(Tail(a), b)
             q == LCS(a, Tail(b))
         IN  IF p > q THEN p ELSE q

\* the lines of all edits, original and modified
RECURSIVE EditedLines(_)
EditedLines(edits) ==
    IF edits = <<>> THEN 0
    ELSE Len(Head(edits).original.content) + Len(Head(edits).modified.content)
             + EditedLines(Tail(edits))

\* the edits are a shortest edit script and the trace has one vector for
\* each of its d-rounds and one more
ShortestScript(edits, a, b) ==
    /\ EditedLines(edits) = Len(a) + Len(b) - 2 * LCS(a, b)
    /\ Len(explore_paths(a, b).t) = EditedLines(edits) + 1

\* C26: for all a and b, the edits of myers::from(a, b) are a shortest edit
\* script: their lines number |a| + |b| - 2 * LCS(a, b), and the trace of
\* explore_paths has that many d-rounds plus one.
MyersScriptShortest ==
    MyersFromCalled => (~medits.panic /\ ShortestScript(medits.edits, ma, mb))

\* the same for every call that returns
MyersScriptShortestWhenReturned ==
    (MyersFromCalled /\ ~medits.panic) => ShortestScript(medits.edits, ma, mb)

\* ---- further claims about the repository (SpecRepo) -----------------------

\* the cursor file cf holds one digest and it is a key of the graph file gf
CursorNamesKey(cf, gf) ==
    /\ gf.exists
    /\ cf.exists
    /\ Len(cf.content) = 1
    /\ cf.content[1] \in DOMAIN gf.graph

\* C27: once init has completed, the digest in the cursor file is a key of
\* the persisted graph in every state, the states between the steps of
\* commit() and those a failed step leaves included, as long as go() is not
\* given a target that is no key of the graph: the step that completes init
\* makes it so, and every later step that is not of such a go() keeps it so.
CursorStaysGraphKey ==
    [][/\ (~graphFile.exists /\ graphFile'.exists) => CursorNamesKey(cursorFile', graphFile')
       /\ (/\ CursorNamesKey(cursorFile, graphFile)
           /\ ~(frame.call = "go" /\ frame.target.hash \notin DOMAIN graphFile.graph))
              => CursorNamesKey(cursorFile', graphFile')]_vars

\* ---- a further claim about Graph (SpecGraph) -------------------------------

\* C28: a call of add_node, add_edge, remove_edge or remove_node that returns
\* an error leaves the graph as it was before the call: the same keys and,
\* for every node, the same pointing_to and pointed_to lists.
FailedGraphCallChangesNothing ==
    gres \notin {"none", "ok"} =>
        /\ DOMAIN nodes = DOMAIN gcall.pre
        /\ \A id \in DOMAIN nodes :
               /\ nodes[id].pointing_to = gcall.pre[id].pointing_to
               /\ nodes[id].pointed_to = gcall.pre[id].pointed_to

\* add_edge of an edge that is there already, from a node with another edge
\* too, to another node: the call fails and the lists are as they were
FailedGraphCallChangesNothingWitness ==
    /\ gcall.op = "add_edge"
    /\ gres = "'from' node already contains an edge to 'to' node"
    /\ gcall.from # gcall.to
    /\ Len(gcall.pre[gcall.from].pointing_to) = 2
    /\ nodes = gcall.pre

\* C29: while go() applies its edits, and after it returned an error, the
\* cursor file is what it was before the call; go() changes it only in its
\* last step, with no edit left to apply, and then returns Ok.
GoErrorKeepsCursor ==
    /\ pc = "go_apply" => cursorFile = pre.cursorFile
    /\ (ret.call = "go" /\ ret.res # "ok") => cursorFile = pre.cursorFile

\* go() to another commit failed in the middle of its edits: the tree has
\* changed, the cursor has not
GoErrorKeepsCursorWitness ==
    /\ ret.call = "go"
    /\ ret.res \notin {"ok", "none", DirtyError}
    /\ wd # pre.wd
    /\ cursorFile = pre.cursorFile
    /\ cursorFile.content # <<ret.commit.hash>>

\* the header arithmetic of an edit goes through in a build that checks it:
\* to_edit_script computes the two end bounds, and parse_edit_script the two
\* line counts of the header it wrote, without a panic
HeaderArithmeticSafe(e) ==
    LET script == to_edit_script(e, TRUE)
    IN  /\ ~script.panic
        /\ ~parse_edit_script(script.text, TRUE).panic

\* C30: for every edit of myers::from(a, b), pure Inserts, pure Deletes and
\* edits at line 0 included, to_edit_script computes the end bounds of the
\* header and parse_edit_script the line counts without underflow or wrap.
MyersEditHeadersSafe ==
    (MyersFromCalled /\ ~medits.panic)
        => \A i \in DOMAIN medits.edits : HeaderArithmeticSafe(medits.edits[i])

\* the same for the edits with lines on both sides
ReplaceEditHeadersSafe ==
    (MyersFromCalled /\ ~medits.panic)
        => \A i \in DOMAIN medits.edits :
               medits.edits[i].op = "Replace" => HeaderArithmeticSafe(medits.edits[i])

\* every pure Insert and pure Delete of myers::from underflows
PureEditHeadersUnsafe ==
    (MyersFromCalled /\ ~medits.panic)
        => \A i \in DOMAIN medits.edits :
               medits.edits[i].op # "Replace" => ~HeaderArithmeticSafe(medits.edits[i])

====
